---------------------------- MODULE Spec2Model ----------------------------
(***************************************************************************)
(* spconnect: a console <-> serial port byte pump for Windows.             *)
(*                                                                         *)
(* The model follows the asynchronous (overlapped I/O) program: option     *)
(* parsing, console initialisation and restoration, ReadStdin, and the     *)
(* main loop.  The operating system is the environment: it queues console  *)
(* input events, completes the outstanding overlapped read and write, and  *)
(* may fail any call.  Strings are sequences of character codes.           *)
(***************************************************************************)
EXTENDS Integers, Sequences, FiniteSets, TLC

(***************************************************************************)
(* Bounds of the model.                                                    *)
(***************************************************************************)
\* keys the user presses during one run
MaxKeys == 2
\* read completions the port delivers during one run
MaxChunks == 2
\* longest run of bytes one read completion delivers
MaxChunkLen == 2
\* the same two budgets for the runs that vary the console's settings
MaxKeysCon == 1
MaxChunksCon == 1
\* the longest argument list of the runs that vary the arguments
MaxArgs == 3

(***************************************************************************)
(* Program constants.                                                      *)
(***************************************************************************)
BUF_SIZE == 4096
WBUF_SIZE == 1024
RECORD_SIZE == 256
DefaultWriteTimeout == 1000

\* Windows constants the program uses
CP_UTF8 == 65001
KEY_EVENT == 1
VK_F10 == 121
LEFT_CTRL_PRESSED == 8
RIGHT_CTRL_PRESSED == 4
\* ENABLE_QUICK_EDIT_MODE | ENABLE_EXTENDED_FLAGS | ENABLE_WINDOW_INPUT
StdinModeBase == 200
ENABLE_VIRTUAL_TERMINAL_INPUT == 512
ENABLE_WRAP_AT_EOL_OUTPUT == 2
\* ENABLE_PROCESSED_OUTPUT | ENABLE_VIRTUAL_TERMINAL_PROCESSING
StdoutModeVT == 5
CBR_115200 == 115200

\* character codes
Dash == 45
CR == 13
LF == 10
ESC == 27

(***************************************************************************)
(* Option strings matched by main, as character codes.                     *)
(***************************************************************************)
\* "--local-echo"
S_local_echo == <<45, 45, 108, 111, 99, 97, 108, 45, 101, 99, 104, 111>>
\* "-l"
S_l == <<45, 108>>
\* "--system-codepage"
S_system_codepage == <<45, 45, 115, 121, 115, 116, 101, 109, 45, 99, 111, 100, 101, 112, 97, 103, 101>>
\* "-s"
S_s == <<45, 115>>
\* "--replace-cr"
S_replace_cr == <<45, 45, 114, 101, 112, 108, 97, 99, 101, 45, 99, 114>>
\* "-r"
S_r == <<45, 114>>
\* "--disable-vt"
S_disable_vt == <<45, 45, 100, 105, 115, 97, 98, 108, 101, 45, 118, 116>>
\* "-d"
S_d == <<45, 100>>
\* "--debug-input"
S_debug_input == <<45, 45, 100, 101, 98, 117, 103, 45, 105, 110, 112, 117, 116>>
\* "--help"
S_help == <<45, 45, 104, 101, 108, 112>>
\* "-h"
S_h == <<45, 104>>
\* "--write-timeout"
S_write_timeout == <<45, 45, 119, 114, 105, 116, 101, 45, 116, 105, 109, 101, 111, 117, 116>>
\* "-w"
S_w == <<45, 119>>

\* the 7-byte VT encoding of Ctrl-F10: ESC [ 2 1 ; 5 ~
QuitSeq == <<27, 91, 50, 49, 59, 53, 126>>

(***************************************************************************)
(* Argument tokens the runs are started with.                              *)
(***************************************************************************)
\* "com1"
A_com1 == <<99, 111, 109, 49>>
\* "COM1"
A_COM1 == <<67, 79, 77, 49>>
\* "-L"
A_L == <<45, 76>>
\* "-H"
A_H == <<45, 72>>
\* "-c"
A_c == <<45, 99>>
\* "500"
A_500 == <<53, 48, 48>>
\* "abc"
A_abc == <<97, 98, 99>>
\* "--Replace-CR"
A_Replace_CR == <<45, 45, 82, 101, 112, 108, 97, 99, 101, 45, 67, 82>>
\* "-W"
A_W == <<45, 87>>

(***************************************************************************)
(* Sequence helpers.                                                       *)
(***************************************************************************)
RECURSIVE Flatten(_)
Flatten(ss) ==
    IF Len(ss) = 0 THEN <<>>
    ELSE IF Len(ss) = 1 THEN ss[1]
    ELSE LET h == Len(ss) \div 2
         IN  Flatten(SubSeq(ss, 1, h)) \o Flatten(SubSeq(ss, h + 1, Len(ss)))

Min(a, b) == IF a < b THEN a ELSE b

(***************************************************************************)
(* A DWORD is kept as its two 16-bit halves, so that all 32 bits fit.      *)
(***************************************************************************)
Dword(hi, lo) == [hi |-> hi, lo |-> lo]

\* the DWORD an int converts to (two's complement for a negative int)
IntToDword(i) ==
    IF i >= 0 THEN Dword(i \div 65536, i % 65536)
    ELSE LET u == (i + 2147483647) + 1
         IN  Dword(32768 + (u \div 65536), u % 65536)

DwLess(a, b) == a.hi < b.hi \/ (a.hi = b.hi /\ a.lo < b.lo)
DwLeq(a, b) == a = b \/ DwLess(a, b)

Take(s, n) == SubSeq(s, 1, Min(n, Len(s)))
Drop(s, n) == SubSeq(s, Min(n, Len(s)) + 1, Len(s))

\* s holds pat at 1-based position p
MatchAt(s, pat, p) == /\ p + Len(pat) - 1 <= Len(s)
                      /\ SubSeq(s, p, p + Len(pat) - 1) = pat

(***************************************************************************)
(* StrToLower: ASCII 'A'..'Z' get 32 added, everything else is kept.       *)
(***************************************************************************)
\* mutant: no letter is changed
LowerChar_Identity(c) == c

LowerChar(c) == IF c >= 65 /\ c <= 90 THEN c + 32 ELSE c

StrToLower(str) == [i \in 1..Len(str) |-> LowerChar(str[i])]

(***************************************************************************)
(* atoi: optional leading white space, optional sign, then the longest     *)
(* run of decimal digits; 0 when there is none.                            *)
(***************************************************************************)
IsDigit(c) == c >= 48 /\ c <= 57
IsSpace(c) == c = 32 \/ (c >= 9 /\ c <= 13)

RECURSIVE AtoiDigits(_, _)
AtoiDigits(s, acc) ==
    IF s # <<>> /\ IsDigit(Head(s))
    THEN AtoiDigits(Tail(s), acc * 10 + (Head(s) - 48))
    ELSE acc

RECURSIVE atoi(_)
atoi(s) ==
    IF s = <<>> THEN 0
    ELSE IF IsSpace(Head(s)) THEN atoi(Tail(s))
    ELSE IF Head(s) = 45 THEN 0 - AtoiDigits(Tail(s), 0)
    ELSE IF Head(s) = 43 THEN AtoiDigits(Tail(s), 0)
    ELSE AtoiDigits(s, 0)

(***************************************************************************)
(* The state.                                                              *)
(***************************************************************************)
VARIABLES
    \* main: the argument list (without the program name), the index of the
    \* token being judged, and the port identifier
    argv, argi, sp_s,
    \* the options
    LocalEcho, SystemCP, ReplaceCR, DisableVT, DebugInput, WriteTimeout,
    \* the saved console settings
    STDIN_ORIGINAL_MODE, STDIN_ORIGINAL_CP, STDOUT_ORIGINAL_MODE, STDOUT_ORIGINAL_CP,
    \* the console: its current settings, the argument list as given (kept for
    \* the properties), the settings before launch, whether
    \* GetStdHandle yields valid handles, and the queue of input events
    console, argv0, prelaunch, stdHandleValid, conQueue,
    \* the port: its line parameters, the two OVERLAPPED records, the requests
    \* the driver holds, and whether the port handle is signalled
    portLine, port_in_over, port_out_over, osReads, osWrites, signalled,
    \* main's buffers and locals
    port_read_buf, port_write_buf, port_write_busy,
    rval, read_complete, bytes_read, write_complete, bytes_stdin,
    \* control: the program counter, the exit status, and what ended the run
    pc, exitStatus, exitCause,
    \* what the program has put out: the error stream, standard output
    \* (printf), WriteConsoleA calls on stdout_h, WriteFile calls on the port
    stderrLog, stdoutLog, conOut, portWrites,
    \* the synchronous loop of spconnect.c: its one copy buffer, and the calls
    \* made so far in the current iteration (kept for the properties)
    buf, steps,
    \* the codepage calls the program has made, in order (kept for the
    \* properties)
    cpWrites,
    \* history of the environment: bytes the port delivered, console events
    \* queued so far, reads issued and not yet observed complete, and the
    \* budgets left
    delivered, typed, readOutstanding, keysLeft, chunksLeft

optVars  == <<LocalEcho, SystemCP, ReplaceCR, DisableVT, DebugInput, WriteTimeout>>
argVars  == <<argv, argi, sp_s>>
saveVars == <<STDIN_ORIGINAL_MODE, STDIN_ORIGINAL_CP, STDOUT_ORIGINAL_MODE, STDOUT_ORIGINAL_CP>>
syncVars == <<buf, steps>>
conVars  == <<console, cpWrites, argv0, prelaunch, syncVars, stdHandleValid, conQueue>>
portVars == <<portLine, port_in_over, port_out_over, osReads, osWrites, signalled>>
bufVars  == <<port_read_buf, port_write_buf, port_write_busy>>
locVars  == <<rval, read_complete, bytes_read, write_complete, bytes_stdin>>
ctlVars  == <<pc, exitStatus, exitCause>>
outVars  == <<stderrLog, stdoutLog, conOut, portWrites>>
envVars  == <<delivered, typed, readOutstanding, keysLeft, chunksLeft>>

vars == <<argVars, optVars, saveVars, conVars, portVars, bufVars, locVars,
          ctlVars, outVars, envVars>>

(***************************************************************************)
(* Console input events (INPUT_RECORD) and the keys the user can press.    *)
(***************************************************************************)
KeyRecord(down, c, state, vk) ==
    [EventType |-> KEY_EVENT, bKeyDown |-> down, UnicodeChar |-> c,
     dwControlKeyState |-> state, wVirtualKeyCode |-> vk]

\* an event that is no key event: a window-buffer-size event (type 4)
OtherRecord ==
    [EventType |-> 4, bKeyDown |-> 0, UnicodeChar |-> 0,
     dwControlKeyState |-> 0, wVirtualKeyCode |-> 0]

\* what one key press or console event puts in the input queue: a character
\* key gives a key-down and a key-up record
K_eacute  == << KeyRecord(1, 233, 0, 0), KeyRecord(0, 233, 0, 0) >>
K_CR      == << KeyRecord(1, CR, 0, 13), KeyRecord(0, CR, 0, 13) >>
K_ctrl    == << KeyRecord(1, 0, LEFT_CTRL_PRESSED, 17) >>
K_nul     == << KeyRecord(1, 0, 0, 0) >>
K_resize  == << OtherRecord >>
K_CtrlF10 == << KeyRecord(1, 0, LEFT_CTRL_PRESSED, VK_F10) >>
\* with VT input enabled the console turns Ctrl-F10 into seven character events
K_VtCtrlF10 == [i \in 1..Len(QuitSeq) |-> KeyRecord(1, QuitSeq[i], 0, 0)]

Keys == {K_eacute, K_CR, K_ctrl, K_nul, K_resize, K_CtrlF10, K_VtCtrlF10}

\* the k-th byte the port delivers during a run: 'A', 'B', ...
PortByte(k) == 64 + k

\* the chunk of n bytes that follows the d bytes delivered so far
NextChunk(d, n) == [i \in 1..n |-> PortByte(d + i)]

(***************************************************************************)
(* ReadStdin: the scan of one batch of records.                            *)
(***************************************************************************)
\* dwControlKeyState & (LEFT_CTRL_PRESSED | RIGHT_CTRL_PRESSED)
HasCtrl(state) == (state \div RIGHT_CTRL_PRESSED) % 4 # 0

Considered(r) == r.EventType = KEY_EVENT /\ r.bKeyDown = 1

\* mutant: the key event is taken for the quit gesture only with VT disabled
IsQuitKey_OnlyWithoutVT(r) ==
    DisableVT /\ HasCtrl(r.dwControlKeyState) /\ r.wVirtualKeyCode = VK_F10

IsQuitKey(r) == HasCtrl(r.dwControlKeyState) /\ r.wVirtualKeyCode = VK_F10

\* mutant: a carriage return is never replaced
ReplaceChar_Never(c) == c

\* mutant: CR is replaced whether or not the option is set
ReplaceChar_Always(c) == IF c = CR THEN LF ELSE c

ReplaceChar(c) == IF ReplaceCR /\ c = CR THEN LF ELSE c

\* mutant: every character of a key-down event is buffered
KeepChar_Always(c, state) == TRUE

\* mutant: a NUL is kept when modifier state comes with it, dropped otherwise
KeepChar_NulWithModifiers(c, state) == c # 0 \/ state # 0

KeepChar(c, state) == c # 0 \/ state = 0

\* the for loop over ir[0 .. records_read-1]: quit is TRUE when the loop left
\* through exit(0), buf_w is the accumulator
ScanRecords(ir, buf_w) ==
    LET quitAt == { i \in 1..Len(ir) : Considered(ir[i]) /\ IsQuitKey(ir[i]) }
        last   == IF quitAt = {} THEN Len(ir)
                  ELSE (CHOOSE i \in quitAt : \A k \in quitAt : i <= k) - 1
        Kept(r) == /\ Considered(r)
                   /\ KeepChar(ReplaceChar(r.UnicodeChar), r.dwControlKeyState)
        kept   == SelectSeq(SubSeq(ir, 1, last), Kept)
    IN  [quit  |-> quitAt # {},
         buf_w |-> buf_w \o [i \in 1..Len(kept) |-> ReplaceChar(kept[i].UnicodeChar)]]

(***************************************************************************)
(* WideCharToMultiByte(CP_UTF8, 0, ...): UTF-16 code units to UTF-8 bytes. *)
(***************************************************************************)
IsHighSurrogate(w) == w >= 55296 /\ w <= 56319
IsLowSurrogate(w)  == w >= 56320 /\ w <= 57343

Utf8OfCodePoint(cp) ==
    IF cp < 128 THEN << cp >>
    ELSE IF cp < 2048 THEN << 192 + (cp \div 64), 128 + (cp % 64) >>
    ELSE IF cp < 65536
         THEN << 224 + (cp \div 4096), 128 + ((cp \div 64) % 64), 128 + (cp % 64) >>
    ELSE << 240 + (cp \div 262144), 128 + ((cp \div 4096) % 64),
            128 + ((cp \div 64) % 64), 128 + (cp % 64) >>

\* unit by unit: a high surrogate followed by a low one gives the four bytes
\* of the pair and the low one gives nothing more; a surrogate without its
\* partner gives U+FFFD
WideCharToMultiByte(buf_w) ==
    LET PairAt(i) == /\ i >= 1 /\ i < Len(buf_w)
                     /\ IsHighSurrogate(buf_w[i])
                     /\ IsLowSurrogate(buf_w[i + 1])
        BytesAt(i) ==
            IF PairAt(i)
            THEN Utf8OfCodePoint(65536 + (buf_w[i] - 55296) * 1024
                                       + (buf_w[i + 1] - 56320))
            ELSE IF PairAt(i - 1) THEN <<>>
            ELSE IF IsHighSurrogate(buf_w[i]) \/ IsLowSurrogate(buf_w[i])
            THEN Utf8OfCodePoint(65533)
            ELSE Utf8OfCodePoint(buf_w[i])
    IN  Flatten([i \in 1..Len(buf_w) |-> BytesAt(i)])

\* the scan for the VT form of Ctrl-F10: i runs over 0 .. bytes_stdin-7, and
\* every round compares the first seven bytes of buf_c
VtQuitDetected(buf_c, n) ==
    \E i \in 0..(n - 7) : MatchAt(buf_c, QuitSeq, 1)

\* mutant: every event counted is asked for in one read
RecordsToRead_All(counted) == counted

\* line 268: read no more than RECORD_SIZE records
RecordsToRead(counted) == Min(counted, RECORD_SIZE)

\* what one call of ReadStdin does, given the fault the platform injects:
\*   kind "return": n bytes are in buf_c;  kind "quit": RestoreConsole, exit(0);
\*   kind "fatal": ExitWithError(msg).  queue is the console queue afterwards.
ReadStdin(fault) ==
    LET counted == IF fault = "GetNumberOfConsoleInputEvents" THEN 0 ELSE Len(conQueue)
        Return(n, b, q) == [kind |-> "return", n |-> n, buf_c |-> b, queue |-> q, msg |-> ""]
        Quit(q)  == [kind |-> "quit", n |-> 0, buf_c |-> <<>>, queue |-> q, msg |-> ""]
        Fatal(m, q) == [kind |-> "fatal", n |-> 0, buf_c |-> <<>>, queue |-> q, msg |-> m]
    IN
    IF counted < 1 THEN Return(0, port_write_buf, conQueue)
    ELSE
    LET records_avail == RecordsToRead(counted) IN
    IF fault = "ReadConsoleInputW" THEN Fatal("ReadConsoleInputW", conQueue)
    ELSE IF fault = "short read"
    THEN Fatal("ReadConsoleInputW failed to read all available records.",
               Drop(conQueue, records_avail - 1))
    ELSE
    LET ir   == Take(conQueue, records_avail)
        rest == Drop(conQueue, records_avail)
        scan == ScanRecords(ir, <<>>)
    IN
    IF scan.quit THEN Quit(rest)
    ELSE IF Len(scan.buf_w) = 0 THEN Return(0, port_write_buf, rest)
    ELSE
    LET buf_c == WideCharToMultiByte(scan.buf_w)
        bytes == IF fault = "WideCharToMultiByte" \/ Len(buf_c) > BUF_SIZE
                 THEN 0 ELSE Len(buf_c)
    IN
    IF bytes = 0 THEN Fatal("WideCharToMultiByte", rest)
    ELSE IF VtQuitDetected(buf_c, bytes) THEN Quit(rest)
    ELSE Return(bytes, buf_c, rest)

ReadStdinFaults == {"none", "GetNumberOfConsoleInputEvents", "ReadConsoleInputW",
                    "short read", "WideCharToMultiByte"}

(***************************************************************************)
(* printf("[%02X]", port_write_buf[i]): the char is promoted to int (char  *)
(* is signed on the Windows compilers) and printed as an unsigned int.    *)
(***************************************************************************)
HexChar(d) == IF d < 10 THEN 48 + d ELSE 55 + d

RECURSIVE HexOf(_)
HexOf(n) == IF n < 16 THEN << HexChar(n) >>
            ELSE HexOf(n \div 16) \o << HexChar(n % 16) >>

\* a 16-bit half as four hexadecimal digits
Hex4(n) == << HexChar(n \div 4096), HexChar((n \div 256) % 16),
              HexChar((n \div 16) % 16), HexChar(n % 16) >>

\* "%02X" of an unsigned int: at least two digits, upper case
Printf02X(u) ==
    IF u.hi > 0 THEN HexOf(u.hi) \o Hex4(u.lo)
    ELSE IF u.lo < 16 THEN << 48 >> \o HexOf(u.lo)
    ELSE HexOf(u.lo)

CharToInt(b) == IF b >= 128 THEN b - 256 ELSE b

DebugEchoByte(b) == << 91 >> \o Printf02X(IntToDword(CharToInt(b))) \o << 93 >>

DebugEcho(bytes) == Flatten([i \in 1..Len(bytes) |-> DebugEchoByte(bytes[i])])

(***************************************************************************)
(* RestoreConsole and the exits.                                           *)
(***************************************************************************)
\* mutant: the input codepage is set from the console's output codepage
RestoreConsole_CodepageMixup(con) ==
    LET c1 == IF stdHandleValid.stdin /\ STDIN_ORIGINAL_MODE # 0
              THEN [con EXCEPT !.inMode = STDIN_ORIGINAL_MODE] ELSE con
        c2 == IF STDIN_ORIGINAL_CP # 0
              THEN [c1 EXCEPT !.inCP = con.outCP] ELSE c1
        c3 == IF stdHandleValid.stdout /\ STDOUT_ORIGINAL_MODE # 0
              THEN [c2 EXCEPT !.outMode = STDOUT_ORIGINAL_MODE] ELSE c2
        c4 == IF STDOUT_ORIGINAL_CP # 0
              THEN [c3 EXCEPT !.outCP = STDOUT_ORIGINAL_CP] ELSE c3
    IN  c4

\* the console settings RestoreConsole leaves, from the settings con
RestoreConsole(con) ==
    LET c1 == IF stdHandleValid.stdin /\ STDIN_ORIGINAL_MODE # 0
              THEN [con EXCEPT !.inMode = STDIN_ORIGINAL_MODE] ELSE con
        c2 == IF STDIN_ORIGINAL_CP # 0
              THEN [c1 EXCEPT !.inCP = STDIN_ORIGINAL_CP] ELSE c1
        c3 == IF stdHandleValid.stdout /\ STDOUT_ORIGINAL_MODE # 0
              THEN [c2 EXCEPT !.outMode = STDOUT_ORIGINAL_MODE] ELSE c2
        c4 == IF STDOUT_ORIGINAL_CP # 0
              THEN [c3 EXCEPT !.outCP = STDOUT_ORIGINAL_CP] ELSE c3
    IN  c4

\* one call of SetConsoleCP or SetConsoleOutputCP
CodepageCall(call, cp) == [call |-> call, cp |-> cp]

\* the codepage calls RestoreConsole makes
RestoreCodepageCalls ==
    (IF STDIN_ORIGINAL_CP # 0
     THEN << CodepageCall("SetConsoleCP", STDIN_ORIGINAL_CP) >> ELSE <<>>)
    \o (IF STDOUT_ORIGINAL_CP # 0
        THEN << CodepageCall("SetConsoleOutputCP", STDOUT_ORIGINAL_CP) >> ELSE <<>>)

\* exit(status)
Exit(status, cause) ==
    /\ pc' = "exited"
    /\ exitStatus' = status
    /\ exitCause' = cause

\* mutant: the error exit ends the process with status 0
ExitWithError_Status0(callstr, use_gle) ==
    /\ stderrLog' = Append(stderrLog, [msg |-> callstr, gle |-> use_gle])
    /\ console' = RestoreConsole(console)
    /\ cpWrites' = cpWrites \o RestoreCodepageCalls
    /\ Exit(0, "fatal")

\* ExitWithError: the diagnostic, RestoreConsole, exit(1)
ExitWithError(callstr, use_gle) ==
    /\ stderrLog' = Append(stderrLog, [msg |-> callstr, gle |-> use_gle])
    /\ console' = RestoreConsole(console)
    /\ cpWrites' = cpWrites \o RestoreCodepageCalls
    /\ Exit(1, "fatal")

\* the quit gesture: RestoreConsole, exit(0)
QuitExit ==
    /\ console' = RestoreConsole(console)
    /\ cpWrites' = cpWrites \o RestoreCodepageCalls
    /\ Exit(0, "quit")

\* fprintf(stderr, ...) followed by exit(1) in main's argument loop
UsageExit(msg) ==
    /\ stderrLog' = Append(stderrLog, [msg |-> msg, gle |-> FALSE])
    /\ Exit(1, "usage")

(***************************************************************************)
(* The initial states.                                                     *)
(***************************************************************************)
Overlapped0 == [Internal |-> "STATUS_SUCCESS", InternalHigh |-> 0]

\* the line parameters the port has before the program opens it
PortLineBefore == [BaudRate |-> 9600, ByteSize |-> 7, Parity |-> 2, StopBits |-> 2]

\* the state at the entry of main; queued holds what the console's input
\* queue can hold at that moment
InitFrom(argLists, preLaunches, handleStates, budgets, queued) ==
    /\ argv \in argLists
    /\ argv0 = argv
    /\ argi = 1
    /\ sp_s = <<>>
    /\ LocalEcho = FALSE /\ SystemCP = FALSE /\ ReplaceCR = FALSE
    /\ DisableVT = FALSE /\ DebugInput = FALSE
    /\ WriteTimeout = IntToDword(DefaultWriteTimeout)
    /\ STDIN_ORIGINAL_MODE = 0 /\ STDIN_ORIGINAL_CP = 0
    /\ STDOUT_ORIGINAL_MODE = 0 /\ STDOUT_ORIGINAL_CP = 0
    /\ prelaunch \in preLaunches
    /\ console = prelaunch
    /\ stdHandleValid \in handleStates
    /\ conQueue \in queued
    /\ portLine = PortLineBefore
    /\ port_in_over = Overlapped0 /\ port_out_over = Overlapped0
    /\ osReads = 0 /\ osWrites = <<>> /\ signalled = FALSE
    /\ port_read_buf = <<>> /\ port_write_buf = <<>> /\ port_write_busy = FALSE
    /\ rval = Dword(0, 0) /\ read_complete = FALSE /\ bytes_read = 0
    /\ write_complete = FALSE /\ bytes_stdin = 0
    /\ pc = "args" /\ exitStatus = 0 /\ exitCause = "running"
    /\ stderrLog = <<>> /\ stdoutLog = <<>> /\ conOut = <<>> /\ portWrites = <<>>
    /\ delivered = <<>> /\ typed = conQueue
    /\ readOutstanding = 0
    /\ buf = <<>> /\ steps = <<>>
    /\ cpWrites = <<>>
    /\ \E b \in budgets : keysLeft = b[1] /\ chunksLeft = b[2]

\* the same with nothing queued at the console
InitWith(argLists, preLaunches, handleStates, budgets) ==
    InitFrom(argLists, preLaunches, handleStates, budgets, { <<>> })

BothHandles == [stdin |-> TRUE, stdout |-> TRUE]

TypicalConsole == [inMode |-> 503, inCP |-> 437, outMode |-> 3, outCP |-> 437]

\* argument lists of the runs that exercise the pump
PumpArgLists ==
    { << A_com1 >>,
      << <<>>, A_L, A_COM1, S_replace_cr, S_debug_input, S_w, A_500, S_s, S_d >>,
      << A_com1, S_w >>,
      << S_l >>,
      << A_H, A_com1 >>,
      << A_com1, A_c >> }

\* the budgets of a run: many keys and one read completion, or one key and
\* many read completions
PumpBudgets == { <<MaxKeys, 1>>, <<1, MaxChunks>> }

Init == InitWith(PumpArgLists, {TypicalConsole}, {BothHandles}, PumpBudgets)

\* runs that vary the console's settings before launch
ConsoleArgLists ==
    { << A_com1, S_d >>, << A_com1, S_s, S_l >>, << S_help >>,
      << A_com1, S_w >>, << >>, << <<>>, A_com1, A_c >> }

PreLaunchConsoles ==
    [inMode : {0, 503}, inCP : {437, 65001}, outMode : {0, 3}, outCP : {437, 850}]

HandleStates == [stdin : BOOLEAN, stdout : BOOLEAN]

InitConsole ==
    InitWith(ConsoleArgLists, PreLaunchConsoles, HandleStates, { <<MaxKeysCon, MaxChunksCon>> })

\* runs that vary the argument list: every list of up to MaxArgs tokens
ArgTokens ==
    { <<>>, A_com1, A_COM1, A_500, A_abc,
      S_l, A_L, S_local_echo, S_s, S_system_codepage, S_r, S_replace_cr, A_Replace_CR,
      S_d, S_disable_vt, S_debug_input, S_h, A_H, S_help,
      S_w, A_W, S_write_timeout, A_c }

ArgLists == UNION { [1..n -> ArgTokens] : n \in 0..MaxArgs }

\* the pump is driven in one of these runs only
InitArgs ==
    \/ InitWith(ArgLists, {TypicalConsole}, {BothHandles}, { <<0, 0>> })
    \/ InitWith({ << A_com1, S_l >> }, {TypicalConsole}, {BothHandles}, { <<1, 1>> })

(***************************************************************************)
(* main: the argument loop.                                                *)
(***************************************************************************)
\* mutant: the chain has no branch for "-h"
MatchOption_NoShortHelp(arg) ==
    IF arg = S_local_echo \/ arg = S_l THEN "local-echo"
    ELSE IF arg = S_system_codepage \/ arg = S_s THEN "system-codepage"
    ELSE IF arg = S_replace_cr \/ arg = S_r THEN "replace-cr"
    ELSE IF arg = S_disable_vt \/ arg = S_d THEN "disable-vt"
    ELSE IF arg = S_debug_input THEN "debug-input"
    ELSE IF arg = S_help THEN "help"
    ELSE IF arg = S_write_timeout \/ arg = S_w THEN "write-timeout"
    ELSE "unknown"

\* the branch of the if-chain that takes the lower-cased token arg
MatchOption(arg) ==
    IF arg = S_local_echo \/ arg = S_l THEN "local-echo"
    ELSE IF arg = S_system_codepage \/ arg = S_s THEN "system-codepage"
    ELSE IF arg = S_replace_cr \/ arg = S_r THEN "replace-cr"
    ELSE IF arg = S_disable_vt \/ arg = S_d THEN "disable-vt"
    ELSE IF arg = S_debug_input THEN "debug-input"
    ELSE IF arg = S_help \/ arg = S_h THEN "help"
    ELSE IF arg = S_write_timeout \/ arg = S_w THEN "write-timeout"
    ELSE "unknown"

Flags == {"local-echo", "system-codepage", "replace-cr", "disable-vt", "debug-input"}

InArgLoop == pc = "args" /\ argi <= Len(argv)

IsOptionToken == Len(argv[argi]) >= 1 /\ argv[argi][1] = Dash

\* StrToLower(argv[i], strlen(argv[i])) works in place
LoweredArgv == [argv EXCEPT ![argi] = StrToLower(argv[argi])]

pumpState == <<conQueue, portVars, bufVars, locVars, stdoutLog, conOut, portWrites, envVars>>

ArgEmpty ==
    /\ InArgLoop
    /\ Len(argv[argi]) < 1
    /\ argi' = argi + 1
    /\ UNCHANGED <<argv, sp_s, optVars, saveVars, console, cpWrites, argv0, prelaunch, syncVars, stdHandleValid,
                   ctlVars, stderrLog, pumpState>>

ArgPort ==
    /\ InArgLoop
    /\ Len(argv[argi]) >= 1
    /\ argv[argi][1] # Dash
    /\ sp_s' = argv[argi]
    /\ argi' = argi + 1
    /\ UNCHANGED <<argv, optVars, saveVars, console, cpWrites, argv0, prelaunch, syncVars, stdHandleValid,
                   ctlVars, stderrLog, pumpState>>

ArgFlag ==
    /\ InArgLoop
    /\ IsOptionToken
    /\ LET m == MatchOption(StrToLower(argv[argi])) IN
       /\ m \in Flags
       /\ LocalEcho'  = (LocalEcho  \/ m = "local-echo")
       /\ SystemCP'   = (SystemCP   \/ m = "system-codepage")
       /\ ReplaceCR'  = (ReplaceCR  \/ m = "replace-cr")
       /\ DisableVT'  = (DisableVT  \/ m = "disable-vt")
       /\ DebugInput' = (DebugInput \/ m = "debug-input")
    /\ argv' = LoweredArgv
    /\ argi' = argi + 1
    /\ UNCHANGED <<sp_s, WriteTimeout, saveVars, console, cpWrites, argv0, prelaunch, syncVars, stdHandleValid,
                   ctlVars, stderrLog, pumpState>>

ArgHelp ==
    /\ InArgLoop
    /\ IsOptionToken
    /\ MatchOption(StrToLower(argv[argi])) = "help"
    /\ argv' = LoweredArgv
    /\ stderrLog' = Append(stderrLog, [msg |-> "README", gle |-> FALSE])
    /\ Exit(0, "help")
    /\ UNCHANGED <<argi, sp_s, optVars, saveVars, console, cpWrites, argv0, prelaunch, syncVars, stdHandleValid,
                   pumpState>>

ArgWriteTimeout ==
    /\ InArgLoop
    /\ IsOptionToken
    /\ MatchOption(StrToLower(argv[argi])) = "write-timeout"
    /\ argv' = LoweredArgv
    /\ IF argi + 1 > Len(argv)
       THEN /\ UsageExit("No write timeout specified.")
            /\ UNCHANGED <<argi, WriteTimeout>>
       ELSE /\ argi' = argi + 2
            /\ WriteTimeout' = IntToDword(atoi(argv[argi + 1]))
            /\ UNCHANGED <<ctlVars, stderrLog>>
    /\ UNCHANGED <<sp_s, LocalEcho, SystemCP, ReplaceCR, DisableVT, DebugInput,
                   saveVars, console, cpWrites, argv0, prelaunch, syncVars, stdHandleValid, pumpState>>

ArgUnknown ==
    /\ InArgLoop
    /\ IsOptionToken
    /\ MatchOption(StrToLower(argv[argi])) = "unknown"
    /\ argv' = LoweredArgv
    /\ UsageExit("Unknown option")
    /\ UNCHANGED <<argi, sp_s, optVars, saveVars, console, cpWrites, argv0, prelaunch, syncVars, stdHandleValid,
                   pumpState>>

\* mutant: the check that a port was named never fails
PortMissing_Never == FALSE

\* line 393: sp_s[0] == 0
PortMissing == sp_s = <<>>

\* after the loop: the check that a serial port was named
ArgsDone ==
    /\ pc = "args"
    /\ argi > Len(argv)
    /\ IF PortMissing
       THEN UsageExit("Please specify a serial port.")
       ELSE /\ pc' = "InitStdin"
            /\ UNCHANGED <<exitStatus, exitCause, stderrLog>>
    /\ UNCHANGED <<argVars, optVars, saveVars, console, cpWrites, argv0, prelaunch, syncVars, stdHandleValid,
                   pumpState>>

(***************************************************************************)
(* InitStdin and InitStdout.  Each is two steps: up to GetConsoleMode,     *)
(* which fills the saved mode, and from SetConsoleMode on.                 *)
(***************************************************************************)
initFrame == <<argVars, optVars, argv0, prelaunch, syncVars, stdHandleValid, pumpState>>

InitStdinGet ==
    /\ pc = "InitStdin"
    /\ \E fault \in {"none", "GetFileType", "GetConsoleMode"} :
         IF ~stdHandleValid.stdin
         THEN ExitWithError("GetStdHandle(stdin)", TRUE) /\ UNCHANGED saveVars
         ELSE IF fault = "GetFileType"
         THEN ExitWithError("GetFileType(stdin_h)", TRUE) /\ UNCHANGED saveVars
         ELSE IF fault = "GetConsoleMode"
         THEN ExitWithError("GetConsoleMode(stdin_h)", TRUE) /\ UNCHANGED saveVars
         ELSE /\ STDIN_ORIGINAL_MODE' = console.inMode
              /\ pc' = "InitStdinSet"
              /\ UNCHANGED <<STDIN_ORIGINAL_CP, STDOUT_ORIGINAL_MODE, STDOUT_ORIGINAL_CP,
                             console, cpWrites, exitStatus, exitCause, stderrLog>>
    /\ UNCHANGED initFrame

stdin_mode == StdinModeBase + (IF ~DisableVT THEN ENABLE_VIRTUAL_TERMINAL_INPUT ELSE 0)

\* mutant: the codepage is switched whatever --system-codepage says
SetsCodepage_Always == TRUE

\* lines 123 and 156: the codepage is saved and switched unless the system
\* codepage was asked for
SetsCodepage == ~SystemCP

InitStdinSet ==
    /\ pc = "InitStdinSet"
    /\ \E fault \in {"none", "SetConsoleMode", "SetConsoleCP"} :
         IF fault = "SetConsoleMode"
         THEN ExitWithError("SetConsoleMode(stdin_h)", TRUE) /\ UNCHANGED saveVars
         ELSE /\ IF SetsCodepage
                 THEN /\ STDIN_ORIGINAL_CP' = console.inCP
                      /\ console' = [console EXCEPT
                                       !.inMode = stdin_mode,
                                       !.inCP = IF fault = "SetConsoleCP" THEN @ ELSE CP_UTF8]
                      /\ cpWrites' = Append(cpWrites, CodepageCall("SetConsoleCP", CP_UTF8))
                 ELSE /\ STDIN_ORIGINAL_CP' = STDIN_ORIGINAL_CP
                      /\ console' = [console EXCEPT !.inMode = stdin_mode]
                      /\ cpWrites' = cpWrites
              /\ pc' = "InitStdout"
              /\ UNCHANGED <<STDIN_ORIGINAL_MODE, STDOUT_ORIGINAL_MODE, STDOUT_ORIGINAL_CP,
                             exitStatus, exitCause, stderrLog>>
    /\ UNCHANGED initFrame

InitStdoutGet ==
    /\ pc = "InitStdout"
    /\ \E fault \in {"none", "GetFileType", "GetConsoleMode"} :
         IF ~stdHandleValid.stdout
         THEN ExitWithError("GetStdHandle(stdout)", TRUE) /\ UNCHANGED saveVars
         ELSE IF fault = "GetFileType"
         THEN ExitWithError("GetFileType(stdout_h)", TRUE) /\ UNCHANGED saveVars
         ELSE IF fault = "GetConsoleMode"
         THEN ExitWithError("GetConsoleMode(stdout_h)", TRUE) /\ UNCHANGED saveVars
         ELSE /\ STDOUT_ORIGINAL_MODE' = console.outMode
              /\ pc' = "InitStdoutSet"
              /\ UNCHANGED <<STDIN_ORIGINAL_MODE, STDIN_ORIGINAL_CP, STDOUT_ORIGINAL_CP,
                             console, cpWrites, exitStatus, exitCause, stderrLog>>
    /\ UNCHANGED initFrame

stdout_mode == ENABLE_WRAP_AT_EOL_OUTPUT + (IF ~DisableVT THEN StdoutModeVT ELSE 0)

InitStdoutSet ==
    /\ pc = "InitStdoutSet"
    /\ \E fault \in {"none", "SetConsoleMode", "SetConsoleOutputCP"} :
         IF fault = "SetConsoleMode"
         THEN ExitWithError("SetConsoleMode(stdout_h)", TRUE) /\ UNCHANGED saveVars
         ELSE /\ IF SetsCodepage
                 THEN /\ STDOUT_ORIGINAL_CP' = console.outCP
                      /\ console' = [console EXCEPT
                                       !.outMode = stdout_mode,
                                       !.outCP = IF fault = "SetConsoleOutputCP" THEN @ ELSE CP_UTF8]
                      /\ cpWrites' = Append(cpWrites,
                                            CodepageCall("SetConsoleOutputCP", CP_UTF8))
                 ELSE /\ STDOUT_ORIGINAL_CP' = STDOUT_ORIGINAL_CP
                      /\ console' = [console EXCEPT !.outMode = stdout_mode]
                      /\ cpWrites' = cpWrites
              /\ pc' = "InitPort"
              /\ UNCHANGED <<STDIN_ORIGINAL_MODE, STDIN_ORIGINAL_CP, STDOUT_ORIGINAL_MODE,
                             exitStatus, exitCause, stderrLog>>
    /\ UNCHANGED initFrame

(***************************************************************************)
(* InitPortAsynch, then main's welcome message.                            *)
(***************************************************************************)
InitPortAsynch ==
    /\ pc = "InitPort"
    /\ \E fault \in {"none", "CreateFileA", "GetCommState", "SetCommState"} :
         IF fault = "CreateFileA"
         THEN ExitWithError("CreateFileA(sp_s)", TRUE) /\ UNCHANGED portLine
         ELSE IF fault = "GetCommState"
         THEN /\ ExitWithError("GetCommState: Error getting serial port state.", FALSE)
              /\ UNCHANGED portLine
         ELSE IF fault = "SetCommState"
         THEN /\ ExitWithError("SetCommState: Error setting serial port state.", TRUE)
              /\ UNCHANGED portLine
         ELSE /\ portLine' = [BaudRate |-> CBR_115200, ByteSize |-> 8,
                              Parity |-> 0, StopBits |-> 0]
              /\ stderrLog' = Append(stderrLog, [msg |-> "Connecting", gle |-> FALSE])
              /\ pc' = "FirstRead"
              /\ UNCHANGED <<console, cpWrites, exitStatus, exitCause>>
    /\ UNCHANGED <<argVars, optVars, saveVars, argv0, prelaunch, syncVars, stdHandleValid, conQueue,
                   port_in_over, port_out_over, osReads, osWrites, signalled,
                   bufVars, locVars, stdoutLog, conOut, portWrites, envVars>>

(***************************************************************************)
(* The overlapped calls.                                                   *)
(***************************************************************************)
OverlappedPending == [Internal |-> "STATUS_PENDING", InternalHigh |-> 0]

\* ReadFile(port_h, &port_read_buf, BUF_SIZE, NULL, &port_in_over) that starts:
\* the driver holds one more read and the port handle is reset
ReadFileStarts ==
    /\ port_in_over' = OverlappedPending
    /\ osReads' = osReads + 1
    /\ signalled' = FALSE
    /\ readOutstanding' = readOutstanding + 1

\* GetOverlappedResult(port_h, &over, &n, false):
\*   "incomplete" (ERROR_IO_INCOMPLETE), "complete" with over.InternalHigh
\*   bytes, or "error"
GetOverlappedResult(over) ==
    IF over.Internal = "STATUS_PENDING" THEN "incomplete"
    ELSE IF over.Internal = "STATUS_SUCCESS" THEN "complete"
    ELSE "error"

pumpFrame == <<argVars, optVars, saveVars, argv0, prelaunch, syncVars, stdHandleValid, portLine>>

\* main, lines 410-420: the first read
FirstRead ==
    /\ pc = "FirstRead"
    /\ \E fault \in {"none", "ReadFile"} :
         IF fault = "ReadFile"
         THEN /\ ExitWithError("Failed ReadFile asynch on serial port.", TRUE)
              /\ UNCHANGED <<port_in_over, osReads, signalled, readOutstanding>>
         ELSE /\ ReadFileStarts
              /\ pc' = "Wait"
              /\ UNCHANGED <<console, cpWrites, exitStatus, exitCause, stderrLog>>
    /\ UNCHANGED <<pumpFrame, conQueue, port_out_over, osWrites, bufVars, locVars,
                   stdoutLog, conOut, portWrites,
                   delivered, typed, keysLeft, chunksLeft>>

(***************************************************************************)
(* The main loop.                                                          *)
(***************************************************************************)
WAIT_OBJECT_0 == Dword(0, 0)
WAIT_ABANDONED_0 == Dword(0, 128)
WAIT_TIMEOUT == Dword(0, 258)
WAIT_FAILED == Dword(65535, 65535)

\* a value the if-chain on rval has no name for
WAIT_IO_COMPLETION == Dword(0, 192)

\* what WaitForMultipleObjects(1, &handles[0], FALSE, 1000) can return
WaitResults ==
    (IF signalled THEN {WAIT_OBJECT_0} ELSE {WAIT_TIMEOUT})
        \cup {WAIT_ABANDONED_0, WAIT_FAILED, WAIT_IO_COMPLETION}

\* mutant: a failed wait is taken for a timeout
WaitOutcome_FailedIsTimeout(r) ==
    IF DwLess(r, Dword(0, 1)) THEN "port event"
    ELSE IF DwLeq(WAIT_ABANDONED_0, r) /\ DwLeq(r, Dword(0, 129))
    THEN "Abandoned mutex object"
    ELSE IF r # WAIT_TIMEOUT /\ r # WAIT_FAILED THEN "Unknown asynch error"
    ELSE "timeout"

\* lines 428-489: the branch of the if-chain that rval takes
WaitOutcome(r) ==
    IF DwLess(r, Dword(0, 1)) THEN "port event"
    ELSE IF DwLeq(WAIT_ABANDONED_0, r) /\ DwLeq(r, Dword(0, 129))
    THEN "Abandoned mutex object"
    ELSE IF r = WAIT_FAILED THEN "WAIT_FAILED"
    ELSE IF r # WAIT_TIMEOUT THEN "Unknown asynch error"
    ELSE "timeout"

\* lines 425-489: the wait and the if-chain on rval
Wait ==
    /\ pc = "Wait"
    /\ \E r \in WaitResults :
         /\ rval' = r
         /\ IF WaitOutcome(r) = "port event"
            THEN /\ pc' = "HandlePort"
                 /\ UNCHANGED <<console, cpWrites, exitStatus, exitCause, stderrLog>>
            ELSE IF WaitOutcome(r) = "timeout"
            THEN /\ pc' = "Poll"
                 /\ UNCHANGED <<console, cpWrites, exitStatus, exitCause, stderrLog>>
            ELSE ExitWithError(WaitOutcome(r), TRUE)
    /\ UNCHANGED <<pumpFrame, conQueue, portVars, bufVars,
                   read_complete, bytes_read, write_complete, bytes_stdin,
                   stdoutLog, conOut, portWrites, envVars>>

\* mutant: the read is set up again only when bytes were received
AfterHandlePort_RearmOnlyWithData(complete, n) ==
    IF complete /\ n > 0 THEN "WriteStdout" ELSE "Poll"

\* lines 454-472: where control goes after the two queries
AfterHandlePort(complete, n) ==
    IF complete THEN (IF n > 0 THEN "WriteStdout" ELSE "Rearm") ELSE "Poll"

\* lines 432-452: the two completion queries
HandlePort ==
    /\ pc = "HandlePort"
    /\ LET rres == GetOverlappedResult(port_in_over)
           wres == GetOverlappedResult(port_out_over)
       IN
       IF rres = "error" \/ wres = "error"
       THEN /\ ExitWithError("GetOverlappedResult", TRUE)
            /\ UNCHANGED <<read_complete, bytes_read, write_complete, readOutstanding>>
       ELSE /\ read_complete' = (rres = "complete")
            /\ bytes_read' = IF rres = "complete" THEN port_in_over.InternalHigh ELSE 0
            /\ readOutstanding' = IF rres = "complete" THEN readOutstanding - 1
                                  ELSE readOutstanding
            /\ write_complete' = (wres = "complete")
            /\ pc' = AfterHandlePort(rres = "complete", port_in_over.InternalHigh)
            /\ UNCHANGED <<console, cpWrites, exitStatus, exitCause, stderrLog>>
    /\ UNCHANGED <<pumpFrame, conQueue, portVars, bufVars, rval, bytes_stdin,
                   stdoutLog, conOut, portWrites,
                   delivered, typed, keysLeft, chunksLeft>>

\* the byte counts a write of n bytes can report: all of them, or one short
WrittenCounts(n) == {n, n - 1}

\* mutant: the console write is given the port-write buffer
StdoutSource_WriteBuf == port_write_buf

\* the buffer WriteConsoleA is given at line 458
StdoutSource == port_read_buf

\* lines 455-464: the received bytes go to the console
WriteStdout ==
    /\ pc = "WriteStdout"
    /\ \/ /\ ExitWithError("WriteFile(stdout_h)", TRUE)
          /\ UNCHANGED conOut
       \/ \E bytes_written \in WrittenCounts(bytes_read) :
            /\ conOut' = Append(conOut, Take(StdoutSource, bytes_written))
            /\ stderrLog' = IF bytes_written # bytes_read
                            THEN Append(stderrLog, [msg |-> "WARNING: WriteFile(stdout_h)",
                                                    gle |-> FALSE])
                            ELSE stderrLog
            /\ pc' = "Rearm"
            /\ UNCHANGED <<console, cpWrites, exitStatus, exitCause>>
    /\ UNCHANGED <<pumpFrame, conQueue, portVars, bufVars, locVars,
                   stdoutLog, portWrites, envVars>>

\* lines 465-471: the read is set up again
Rearm ==
    /\ pc = "Rearm"
    /\ \E fault \in {"none", "ReadFile"} :
         IF fault = "ReadFile"
         THEN /\ ExitWithError("Failed ReadFile asynch on serial port.", TRUE)
              /\ port_in_over' = Overlapped0
              /\ UNCHANGED <<osReads, signalled, readOutstanding>>
         ELSE /\ ReadFileStarts
              /\ pc' = "Poll"
              /\ UNCHANGED <<console, cpWrites, exitStatus, exitCause, stderrLog>>
    /\ UNCHANGED <<pumpFrame, conQueue, port_out_over, osWrites, bufVars, locVars,
                   stdoutLog, conOut, portWrites,
                   delivered, typed, keysLeft, chunksLeft>>

\* mutant: the console is polled whether or not a write is outstanding
WriteBusyAtPoll_Ignored == FALSE

\* mutant: write-busy is also dropped when the wait has timed out
NotedBusy_ClearedOnTimeout ==
    IF write_complete \/ rval = WAIT_TIMEOUT THEN FALSE ELSE port_write_busy

\* lines 473-476: port_write_busy once the write's completion is noted
NotedBusy == IF write_complete THEN FALSE ELSE port_write_busy

\* line 491: the test that guards the console poll
WriteBusyAtPoll == NotedBusy

\* lines 473-504: the write's completion is noted (and the block's locals go
\* out of scope), then the console is polled unless a write is outstanding,
\* and what the poll returned is echoed in hex
Poll ==
    /\ pc = "Poll"
    /\ read_complete' = FALSE
    /\ bytes_read' = 0
    /\ write_complete' = FALSE
    /\ IF WriteBusyAtPoll
       THEN /\ pc' = "Wait"
            /\ port_write_busy' = NotedBusy
            /\ UNCHANGED <<console, cpWrites, conQueue, port_write_buf, bytes_stdin,
                           exitStatus, exitCause, stderrLog, stdoutLog>>
       ELSE \E fault \in ReadStdinFaults :
            LET r == ReadStdin(fault) IN
            /\ conQueue' = r.queue
            /\ IF r.kind = "quit"
               THEN /\ QuitExit
                    /\ port_write_busy' = NotedBusy
                    /\ UNCHANGED <<port_write_buf, bytes_stdin, stderrLog, stdoutLog>>
               ELSE IF r.kind = "fatal"
               THEN /\ ExitWithError(r.msg, r.msg = "ReadConsoleInputW"
                                            \/ r.msg = "WideCharToMultiByte")
                    /\ port_write_busy' = NotedBusy
                    /\ UNCHANGED <<port_write_buf, bytes_stdin, stdoutLog>>
               ELSE /\ bytes_stdin' = r.n
                    /\ port_write_buf' = r.buf_c
                    /\ port_write_busy' = IF r.n > 0 THEN TRUE ELSE NotedBusy
                    /\ stdoutLog' = IF r.n > 0 /\ DebugInput
                                    THEN stdoutLog \o DebugEcho(Take(r.buf_c, r.n))
                                    ELSE stdoutLog
                    /\ pc' = IF r.n > 0
                             THEN (IF LocalEcho THEN "LocalEcho" ELSE "WriteFile")
                             ELSE "Wait"
                    /\ UNCHANGED <<console, cpWrites, exitStatus, exitCause, stderrLog>>
    /\ UNCHANGED <<pumpFrame, portVars, port_read_buf, rval, conOut, portWrites, envVars>>

\* lines 506-512: local echo; the count written is not looked at
LocalEchoWrite ==
    /\ pc = "LocalEcho"
    /\ \/ /\ ExitWithError("WriteConsoleA(stdout_h) (echo)", TRUE)
          /\ UNCHANGED conOut
       \/ \E bytes_written_c \in WrittenCounts(bytes_stdin) :
            /\ conOut' = Append(conOut, Take(port_write_buf, bytes_written_c))
            /\ pc' = "WriteFile"
            /\ UNCHANGED <<console, cpWrites, exitStatus, exitCause, stderrLog>>
    /\ UNCHANGED <<pumpFrame, conQueue, portVars, bufVars, locVars,
                   stdoutLog, portWrites, envVars>>

\* lines 514-520: the write to the port is started
WriteFile ==
    /\ pc = "WriteFile"
    /\ \E fault \in {"none", "WriteFile"} :
         IF fault = "WriteFile"
         THEN /\ ExitWithError("WriteFile(port_h)", TRUE)
              /\ port_out_over' = Overlapped0
              /\ UNCHANGED <<osWrites, signalled, portWrites>>
         ELSE /\ port_out_over' = OverlappedPending
              /\ osWrites' = Append(osWrites, Take(port_write_buf, bytes_stdin))
              /\ signalled' = FALSE
              /\ portWrites' = Append(portWrites, Take(port_write_buf, bytes_stdin))
              /\ pc' = "Wait"
              /\ UNCHANGED <<console, cpWrites, exitStatus, exitCause, stderrLog>>
    /\ UNCHANGED <<pumpFrame, conQueue, portLine, port_in_over, osReads, bufVars, locVars,
                   stdoutLog, conOut, envVars>>

(***************************************************************************)
(* The environment: the user at the console and the port's driver.         *)
(***************************************************************************)
PumpRunning == pc \in {"Wait", "HandlePort", "WriteStdout", "Rearm", "Poll",
                       "LocalEcho", "WriteFile",
                       "SyncReadStdin", "SyncLocalEcho", "SyncWriteFile",
                       "SyncReadFile", "SyncWriteStdout", "Sleep"}

\* the user presses a key: its events join the console's input queue
TypeKey ==
    /\ PumpRunning
    /\ keysLeft > 0
    /\ \E k \in Keys :
         /\ conQueue' = conQueue \o k
         /\ typed' = typed \o k
    /\ keysLeft' = keysLeft - 1
    /\ UNCHANGED <<pumpFrame, console, cpWrites, portVars, bufVars, locVars, ctlVars, outVars,
                   delivered, readOutstanding, chunksLeft>>

\* the driver completes a pending read with a chunk of bytes (possibly none)
CompleteRead ==
    /\ PumpRunning
    /\ osReads > 0
    /\ chunksLeft > 0
    /\ \E n \in 0..MaxChunkLen :
         LET chunk == NextChunk(Len(delivered), n) IN
         /\ port_read_buf' = chunk
         /\ port_in_over' = [Internal |-> "STATUS_SUCCESS", InternalHigh |-> Len(chunk)]
         /\ delivered' = delivered \o chunk
    /\ osReads' = osReads - 1
    /\ signalled' = TRUE
    /\ chunksLeft' = chunksLeft - 1
    /\ UNCHANGED <<pumpFrame, console, cpWrites, conQueue, portLine, port_out_over, osWrites,
                   port_write_buf, port_write_busy, locVars, ctlVars, outVars,
                   typed, readOutstanding, keysLeft>>

\* the driver completes the oldest pending write, in full or one byte short
CompleteWrite ==
    /\ PumpRunning
    /\ osWrites # <<>>
    /\ \E n \in WrittenCounts(Len(Head(osWrites))) :
         port_out_over' = [Internal |-> "STATUS_SUCCESS", InternalHigh |-> n]
    /\ osWrites' = Tail(osWrites)
    /\ signalled' = TRUE
    /\ UNCHANGED <<pumpFrame, console, cpWrites, conQueue, portLine, port_in_over, osReads,
                   bufVars, locVars, ctlVars, outVars, envVars>>

\* a pending request ends with an error status
FailRequest ==
    /\ PumpRunning
    /\ \/ /\ osReads > 0
          /\ osReads' = osReads - 1
          /\ port_in_over' = [Internal |-> "STATUS_ERROR", InternalHigh |-> 0]
          /\ UNCHANGED <<port_out_over, osWrites>>
       \/ /\ osWrites # <<>>
          /\ osWrites' = Tail(osWrites)
          /\ port_out_over' = [Internal |-> "STATUS_ERROR", InternalHigh |-> 0]
          /\ UNCHANGED <<port_in_over, osReads>>
    /\ signalled' = TRUE
    /\ UNCHANGED <<pumpFrame, console, cpWrites, conQueue, bufVars, locVars, ctlVars, outVars, envVars>>

(***************************************************************************)
(* The specifications.                                                     *)
(***************************************************************************)
Program ==
    \/ ArgEmpty \/ ArgPort \/ ArgFlag \/ ArgHelp \/ ArgWriteTimeout \/ ArgUnknown
    \/ ArgsDone
    \/ InitStdinGet \/ InitStdinSet \/ InitStdoutGet \/ InitStdoutSet
    \/ InitPortAsynch \/ FirstRead
    \/ Wait \/ HandlePort \/ WriteStdout \/ Rearm \/ Poll \/ LocalEchoWrite \/ WriteFile

Environment == TypeKey \/ CompleteRead \/ CompleteWrite \/ FailRequest

Next == Program \/ Environment

Spec == Init /\ [][Next]_vars

SpecConsole == InitConsole /\ [][Next]_vars

SpecArgs == InitArgs /\ [][Next]_vars

(***************************************************************************)
(* Vocabulary of the properties.                                           *)
(***************************************************************************)
IsPrefix(a, b) == Len(a) <= Len(b) /\ SubSeq(b, 1, Len(a)) = a

Contains(s, pat) == \E p \in 1..Len(s) : MatchAt(s, pat, p)

Last(q) == q[Len(q)]

\* the console events the program has taken from the queue
ConsumedEvents == SubSeq(typed, 1, Len(typed) - Len(conQueue))

IsKeyDown(r) == r.EventType = KEY_EVENT /\ r.bKeyDown = 1

\* a key-down event of F10 with a control key held
CtrlF10Event(r) ==
    /\ IsKeyDown(r)
    /\ r.wVirtualKeyCode = VK_F10
    /\ \E b \in {LEFT_CTRL_PRESSED, RIGHT_CTRL_PRESSED} : (r.dwControlKeyState \div b) % 2 = 1

\* the bytes the typed characters stand for: every key-down event with a
\* character, CR as LF when replace-CR is set, each encoded in UTF-8
RECURSIVE TypedBytes(_)
TypedBytes(events) ==
    IF events = <<>> THEN <<>>
    ELSE LET r == Head(events)
             c == IF ReplaceCR /\ r.UnicodeChar = CR THEN LF ELSE r.UnicodeChar
         IN  (IF IsKeyDown(r) /\ r.UnicodeChar # 0 THEN Utf8OfCodePoint(c) ELSE <<>>)
             \o TypedBytes(Tail(events))

\* the characters of the key-down events, as typed
RECURSIVE TypedChars(_)
TypedChars(events) ==
    IF events = <<>> THEN <<>>
    ELSE (IF IsKeyDown(Head(events)) THEN << Head(events).UnicodeChar >> ELSE <<>>)
         \o TypedChars(Tail(events))

NotNul(b) == b # 0
WithoutNul(bytes) == SelectSeq(bytes, NotNul)

\* the batch ReadStdin has returned and main has not yet written to the port
BatchInHand == IF pc \in {"LocalEcho", "WriteFile"}
               THEN Take(port_write_buf, bytes_stdin) ELSE <<>>

\* the received chunk that is complete and not yet written to the console
ChunkInFlight ==
    IF /\ PumpRunning
       /\ pc # "Rearm"
       /\ osReads = 0
       /\ port_in_over.Internal = "STATUS_SUCCESS"
    THEN Take(port_read_buf, port_in_over.InternalHigh) ELSE <<>>

NoShortConsoleWrite ==
    \A i \in 1..Len(stderrLog) : stderrLog[i].msg # "WARNING: WriteFile(stdout_h)"

WriteIssued == portWrites' # portWrites

(***************************************************************************)
(* C1.  At most one serial write is outstanding.  A write is issued only   *)
(* when no earlier write is pending, with write-busy set, and it carries   *)
(* the batch just read; write-busy is cleared only after the completion of *)
(* that write has been observed; console input is not taken from the queue *)
(* while a write is pending; every batch read leads to exactly one write.  *)
(***************************************************************************)
WriteBusyExclusion ==
    [][ /\ Len(osWrites') <= 1
        /\ WriteIssued =>
             /\ pc = "WriteFile" /\ pc' = "Wait"
             /\ osWrites = <<>>
             /\ port_out_over.Internal # "STATUS_PENDING"
             /\ port_write_busy /\ port_write_busy'
             /\ portWrites' = Append(portWrites, Take(port_write_buf, bytes_stdin))
        /\ (port_write_busy /\ ~port_write_busy') =>
             /\ write_complete
             /\ osWrites = <<>>
             /\ port_out_over.Internal = "STATUS_SUCCESS"
        /\ Len(conQueue') < Len(conQueue) =>
             /\ osWrites = <<>>
             /\ port_out_over.Internal # "STATUS_PENDING"
        /\ (pc = "Poll" /\ pc' \in {"LocalEcho", "WriteFile"}) =>
             /\ bytes_stdin' > 0
             /\ port_write_busy'
        /\ (pc = "WriteFile" /\ pc' # pc) => (WriteIssued \/ pc' = "exited")
      ]_vars

\* two batches have been written in turn, the second write is outstanding
WriteBusyExclusionWitness ==
    /\ Len(portWrites) = 2
    /\ osWrites # <<>>
    /\ port_write_busy
    /\ pc = "Wait"

(***************************************************************************)
(* C2.  Whenever the loop is at its wait exactly one read is outstanding:  *)
(* the driver never holds two reads; outside the span from an observed     *)
(* completion to the re-arming there is one read issued and not observed   *)
(* complete; the re-arming comes after the bytes went to the console.      *)
(***************************************************************************)
OneReadOutstanding ==
    /\ osReads <= 1
    /\ (PumpRunning /\ pc \notin {"WriteStdout", "Rearm"}) => readOutstanding = 1
    /\ pc \in {"WriteStdout", "Rearm"} => (readOutstanding = 0 /\ read_complete)
    /\ (pc = "Rearm" /\ bytes_read > 0) =>
         /\ conOut # <<>>
         /\ IsPrefix(Last(conOut), Take(port_read_buf, bytes_read))
         /\ Len(Last(conOut)) >= bytes_read - 1

\* a read completed with data, the data went to the console, the read was
\* armed again and the loop is back at its wait
OneReadOutstandingWitness ==
    /\ pc = "Wait"
    /\ delivered # <<>>
    /\ Flatten(conOut) = delivered
    /\ readOutstanding = 1
    /\ osReads = 1

(***************************************************************************)
(* C3.  Serial to console: with local echo off and no short console        *)
(* write, the bytes written to the console are the bytes the port          *)
(* delivered, in order, up to the chunk that is complete and not yet       *)
(* written; a read of zero bytes writes nothing.                           *)
(***************************************************************************)
SerialToConsoleInOrder ==
    (~LocalEcho /\ NoShortConsoleWrite) =>
        /\ PumpRunning => delivered = Flatten(conOut) \o ChunkInFlight
        /\ pc = "exited" => IsPrefix(Flatten(conOut), delivered)
        /\ \A i \in 1..Len(conOut) : conOut[i] # <<>>

\* two chunks were delivered and both are on the console, in order
SerialToConsoleWitness ==
    /\ ~LocalEcho
    /\ NoShortConsoleWrite
    /\ Len(conOut) = 2
    /\ Len(delivered) >= 2
    /\ Flatten(conOut) = delivered
    /\ pc = "Wait"

(***************************************************************************)
(* C4.  Console to serial: while the pump runs, the bytes handed to        *)
(* WriteFile on the port (with the batch in hand) are the encoded          *)
(* characters of the key-down events taken from the queue, in the order    *)
(* typed, CR replaced by LF only when replace-CR is set.                   *)
(***************************************************************************)
ConsoleToSerialInOrder ==
    PumpRunning =>
        WithoutNul(Flatten(portWrites) \o BatchInHand) = TypedBytes(ConsumedEvents)

\* two characters typed apart went out in two writes, in the order typed
ConsoleToSerialWitness ==
    /\ typed = K_eacute \o K_CR
    /\ Len(portWrites) = 2
    /\ Flatten(portWrites) = << 195, 169, CR >>
    /\ ~ReplaceCR
    /\ pc = "Wait"

(***************************************************************************)
(* C5.  On every exit the console input mode, output mode, input codepage  *)
(* and output codepage equal their values before launch, whatever those    *)
(* values were.                                                            *)
(***************************************************************************)
ConsoleRestoredAtExit ==
    pc = "exited" => console = prelaunch

\* what does hold: the settings are restored whenever neither mode was 0
ConsoleRestoredUnlessModeZero ==
    (pc = "exited" /\ prelaunch.inMode # 0 /\ prelaunch.outMode # 0)
        => console = prelaunch

(***************************************************************************)
(* C6.  A Ctrl-F10 key event that heads the console queue while a serial   *)
(* write is outstanding ends the process at the next poll point, without   *)
(* the loop going back to wait for the write.                              *)
(***************************************************************************)
QuitWhileWriteOutstanding ==
    [][ ( /\ pc = "Poll"
          /\ pc' # pc
          /\ osWrites # <<>>
          /\ conQueue # <<>>
          /\ CtrlF10Event(Head(conQueue)) )
        => pc' = "exited" ]_vars

(***************************************************************************)
(* C7.  ReadStdin never returns to the pump a batch whose bytes hold the   *)
(* VT quit pattern ESC [ 2 1 ; 5 ~ at any offset.                          *)
(***************************************************************************)
VtQuitAtAnyOffset ==
    pc \in {"LocalEcho", "WriteFile"} =>
        ~Contains(Take(port_write_buf, bytes_stdin), QuitSeq)

(***************************************************************************)
(* C8.  When the batch ReadStdin reads holds a key-down event of F10 with  *)
(* a control key held, the process runs RestoreConsole and exits with      *)
(* status 0, with VT enabled or disabled, and nothing of that batch goes   *)
(* to the port, to the console or to standard output.                      *)
(***************************************************************************)
QuitKeyEndsBatch ==
    [][ LET batch == Take(conQueue, RECORD_SIZE) IN
        ( /\ pc = "Poll"
          /\ ~WriteBusyAtPoll
          /\ \E i \in 1..Len(batch) : CtrlF10Event(batch[i])
          /\ typed' = typed
          /\ conQueue' = Drop(conQueue, Len(batch))
          /\ conQueue' # conQueue )
        => /\ pc' = "exited"
           /\ exitStatus' = 0
           /\ console' = RestoreConsole(console)
           /\ portWrites' = portWrites
           /\ osWrites' = osWrites
           /\ conOut' = conOut
           /\ stdoutLog' = stdoutLog
      ]_vars

\* a character and then Ctrl-F10 were read in one batch: the process has
\* quit and the character went nowhere
QuitKeyEndsBatchWitness ==
    /\ pc = "exited"
    /\ exitCause = "quit"
    /\ typed = K_eacute \o K_CtrlF10
    /\ conQueue = <<>>
    /\ portWrites = <<>>
    /\ conOut = <<>>

(***************************************************************************)
(* C9.  Restoration is idempotent: in every state of the saved settings,   *)
(* RestoreConsole run twice leaves the console as RestoreConsole run once  *)
(* does; after an exit that ran it, running it again changes nothing.      *)
(***************************************************************************)
RestoreIdempotent ==
    /\ RestoreConsole(RestoreConsole(console)) = RestoreConsole(console)
    /\ (pc = "exited" /\ exitCause \in {"quit", "fatal"})
           => RestoreConsole(console) = console

\* a fatal exit half-way through console initialisation: the input settings
\* were saved, changed and restored, the output settings were never saved
RestoreIdempotentWitness ==
    /\ pc = "exited"
    /\ exitCause = "fatal"
    /\ STDIN_ORIGINAL_MODE # 0
    /\ STDIN_ORIGINAL_CP # 0
    /\ STDOUT_ORIGINAL_MODE = 0
    /\ STDOUT_ORIGINAL_CP = 0
    /\ console = prelaunch

(***************************************************************************)
(* C10.  The process ends only through the quit gesture, --help, an        *)
(* argument error or a fatal error; its status is 0 exactly for the quit   *)
(* gesture and --help and 1 otherwise; the pump is left only by exiting    *)
(* through the quit gesture or a fatal error.                              *)
(***************************************************************************)
HelpRequested ==
    \E i \in 1..Len(argv) : StrToLower(argv[i]) \in {S_help, S_h}

QuitConsumed ==
    \/ \E i \in 1..Len(ConsumedEvents) : CtrlF10Event(ConsumedEvents[i])
    \/ Contains(TypedChars(ConsumedEvents), QuitSeq)

DiagnosticLast ==
    /\ stderrLog # <<>>
    /\ Last(stderrLog).msg \notin {"Connecting", "README", "WARNING: WriteFile(stdout_h)"}

ExitAccounted ==
    pc = "exited" =>
        /\ exitStatus \in {0, 1}
        /\ exitCause \in {"quit", "help", "usage", "fatal"}
        /\ exitStatus = 0 <=> exitCause \in {"quit", "help"}
        /\ exitCause = "quit" => QuitConsumed
        /\ exitCause = "help" => HelpRequested
        /\ exitCause \in {"usage", "fatal"} => DiagnosticLast

TerminationRoutes ==
    [][ /\ ExitAccounted'
        /\ PumpRunning => \/ PumpRunning'
                          \/ pc' = "exited" /\ exitCause' \in {"quit", "fatal"}
      ]_vars

\* the pump forwarded input and then ended through the quit gesture
TerminationRoutesWitness ==
    /\ pc = "exited"
    /\ exitCause = "quit"
    /\ exitStatus = 0
    /\ portWrites # <<>>

(***************************************************************************)
(* Vocabulary of the properties of the argument list.  A token is judged   *)
(* by its spelling with ASCII letters folded to lower case.                *)
(***************************************************************************)
Fold(tok) == [i \in 1..Len(tok) |-> IF tok[i] \in 65..90 THEN tok[i] + 32 ELSE tok[i]]

HelpSpellings == {S_help, S_h}
TimeoutSpellings == {S_write_timeout, S_w}
FlagSpellings == {S_local_echo, S_l, S_system_codepage, S_s, S_replace_cr, S_r,
                  S_disable_vt, S_d, S_debug_input}

DashToken(tok) == tok # <<>> /\ tok[1] = Dash

\* token i is the value of a write-timeout option
RECURSIVE ValueOfW(_)
ValueOfW(i) ==
    /\ i > 1
    /\ ~ValueOfW(i - 1)
    /\ DashToken(argv0[i - 1])
    /\ Fold(argv0[i - 1]) \in TimeoutSpellings

\* token i is an option with one of the spellings
OptionAt(i, spellings) ==
    ~ValueOfW(i) /\ DashToken(argv0[i]) /\ Fold(argv0[i]) \in spellings

PortAt(i) == ~ValueOfW(i) /\ argv0[i] # <<>> /\ ~DashToken(argv0[i])

UnknownAt(i) ==
    /\ ~ValueOfW(i)
    /\ DashToken(argv0[i])
    /\ Fold(argv0[i]) \notin (HelpSpellings \cup TimeoutSpellings \cup FlagSpellings)

\* token i is a write-timeout option that is the last token
DanglingAt(i) == OptionAt(i, TimeoutSpellings) /\ i = Len(argv0)

ArgIndices == 1..Len(argv0)

HasPort == \E i \in ArgIndices : PortAt(i)

LastPort == CHOOSE i \in ArgIndices : PortAt(i) /\ \A j \in ArgIndices : PortAt(j) => j <= i

\* every token is a port, an empty token, or a recognized option
RecognizedOnly == \A i \in ArgIndices : ~UnknownAt(i)

\* a recognized list that asks for no help and gives every -w its value
SettingsOnly ==
    /\ RecognizedOnly
    /\ \A i \in ArgIndices : ~OptionAt(i, HelpSpellings) /\ ~DanglingAt(i)

ParsingOver == pc # "args"

\* nothing of the console or the port has been touched
NothingTouched ==
    /\ console = prelaunch
    /\ STDIN_ORIGINAL_MODE = 0 /\ STDIN_ORIGINAL_CP = 0
    /\ STDOUT_ORIGINAL_MODE = 0 /\ STDOUT_ORIGINAL_CP = 0
    /\ portLine = PortLineBefore
    /\ readOutstanding = 0
    /\ osReads = 0

MissingPortExit ==
    /\ pc = "exited"
    /\ exitStatus = 1
    /\ exitCause = "usage"
    /\ Last(stderrLog).msg = "Please specify a serial port."
    /\ NothingTouched

(***************************************************************************)
(* C11 (as stated).  For every argument list made of recognized options:   *)
(* without a port token the process exits with status 1 with nothing       *)
(* touched; with a port token parsing succeeds and the pump is started on  *)
(* that port.                                                              *)
(***************************************************************************)
MissingPortRejected ==
    (RecognizedOnly /\ ParsingOver) =>
        IF HasPort
        THEN exitCause \notin {"usage", "help"} /\ sp_s = argv0[LastPort]
        ELSE MissingPortExit

(***************************************************************************)
(* C11 (amended).  For every argument list made of port tokens, empty      *)
(* tokens, flag options and write-timeout options followed by their value  *)
(* (no help option): without a port token the process exits with status 1  *)
(* and the missing-port message, with no console setting changed, nothing  *)
(* saved and the port untouched; with a port token parsing succeeds and    *)
(* the program goes on with the last port token as its port.               *)
(***************************************************************************)
MissingPortRejectedAmongSettings ==
    (SettingsOnly /\ ParsingOver) =>
        IF HasPort
        THEN exitCause \notin {"usage", "help"} /\ sp_s = argv0[LastPort]
        ELSE MissingPortExit

\* options only, no port: the process has exited with status 1
MissingPortWitness ==
    /\ argv0 = << S_l, S_w, A_500 >>
    /\ MissingPortExit

\* a port between options: the pump runs on it
PortAmongOptionsWitness ==
    /\ argv0 = << S_l, A_COM1, S_d >>
    /\ pc = "Wait"
    /\ sp_s = A_COM1
    /\ LocalEcho /\ DisableVT


(***************************************************************************)
(* C12.  Options are matched without regard to letter case and the port    *)
(* identifier keeps its case: only option tokens are ever rewritten, and   *)
(* only to their lower-case spelling; when a list of ports, flags and      *)
(* write-timeout options with values has a port, parsing succeeds and each *)
(* flag is set exactly when the list as given holds one of its spellings   *)
(* in any mix of letter case; the stored port identifier is, byte for      *)
(* byte, the last non-empty token without a dash that is not the value of  *)
(* a write-timeout option.                                                 *)
(***************************************************************************)
FlagsAsSpelled ==
    (ParsingOver /\ SettingsOnly /\ HasPort) =>
        /\ exitCause \notin {"usage", "help"}
        /\ LocalEcho  <=> \E i \in ArgIndices : OptionAt(i, {S_local_echo, S_l})
        /\ SystemCP   <=> \E i \in ArgIndices : OptionAt(i, {S_system_codepage, S_s})
        /\ ReplaceCR  <=> \E i \in ArgIndices : OptionAt(i, {S_replace_cr, S_r})
        /\ DisableVT  <=> \E i \in ArgIndices : OptionAt(i, {S_disable_vt, S_d})
        /\ DebugInput <=> \E i \in ArgIndices : OptionAt(i, {S_debug_input})
        /\ sp_s = argv0[LastPort]

OnlyOptionsLowered ==
    /\ Len(argv) = Len(argv0)
    /\ \A i \in ArgIndices :
         \/ argv[i] = argv0[i]
         \/ DashToken(argv0[i]) /\ ~ValueOfW(i) /\ i <= argi /\ argv[i] = Fold(argv0[i])

CaseInsensitiveOptions == FlagsAsSpelled /\ OnlyOptionsLowered

\* "-L COM1 --Replace-CR": both flags are on and the port is COM1, not com1
CaseInsensitiveWitness ==
    /\ argv0 = << A_L, A_COM1, A_Replace_CR >>
    /\ pc = "Wait"
    /\ LocalEcho /\ ReplaceCR
    /\ sp_s = A_COM1
    /\ argv = << S_l, A_COM1, S_replace_cr >>


(***************************************************************************)
(* C13.  The write-timeout option needs a number after it.  In a list of   *)
(* ports, flags and write-timeout options that has a port: when a          *)
(* write-timeout option is the last token, or the token after it is not a  *)
(* number, the process exits with status 1 and the 'No write timeout       *)
(* specified' message; otherwise the write timeout is the number after the *)
(* last such option, and 1000 when there is none.                          *)
(***************************************************************************)
Numeric(tok) == tok # <<>> /\ \A k \in 1..Len(tok) : tok[k] \in 48..57

RECURSIVE Decimal(_)
Decimal(tok) ==
    IF tok = <<>> THEN 0
    ELSE 10 * Decimal(SubSeq(tok, 1, Len(tok) - 1)) + (tok[Len(tok)] - 48)

TimeoutOptions == { i \in ArgIndices : OptionAt(i, TimeoutSpellings) }

LastTimeoutOption == CHOOSE i \in TimeoutOptions : \A j \in TimeoutOptions : j <= i

NoTimeoutExit ==
    /\ pc = "exited"
    /\ exitStatus = 1
    /\ Last(stderrLog).msg = "No write timeout specified."

NoHelpNoUnknown ==
    RecognizedOnly /\ \A i \in ArgIndices : ~OptionAt(i, HelpSpellings)

TimeoutAsGiven ==
    WriteTimeout = IF TimeoutOptions = {} THEN Dword(0, DefaultWriteTimeout)
                   ELSE Dword(0, Decimal(argv0[LastTimeoutOption + 1]))

WriteTimeoutNeedsNumber ==
    (ParsingOver /\ NoHelpNoUnknown /\ HasPort) =>
        IF \E i \in TimeoutOptions : i = Len(argv0) \/ ~Numeric(argv0[i + 1])
        THEN NoTimeoutExit
        ELSE TimeoutAsGiven

\* what does hold: a write-timeout option that is the last token is refused,
\* and one followed by a number sets the timeout to that number
WriteTimeoutNeedsToken ==
    (ParsingOver /\ NoHelpNoUnknown /\ HasPort) =>
        IF \E i \in TimeoutOptions : i = Len(argv0)
        THEN NoTimeoutExit
        ELSE (\A i \in TimeoutOptions : Numeric(argv0[i + 1])) => TimeoutAsGiven

\* "-w abc": the program runs on, with a write timeout of 0
WriteTimeoutNotNumberWitness ==
    /\ argv0 = << A_com1, S_w, A_abc >>
    /\ pc = "Wait"
    /\ WriteTimeout = Dword(0, 0)


(***************************************************************************)
(* C14.  The -c option is accepted by the option parser and the port is    *)
(* configured on its account only: the parser never refuses a -c token as  *)
(* an unknown option, and in a run whose argument list holds no -c token   *)
(* the port keeps the line parameters it had before launch.                *)
(***************************************************************************)
ConfigureSpellings == {A_c}

ConfigureGiven == \E i \in ArgIndices : DashToken(argv0[i]) /\ Fold(argv0[i]) \in ConfigureSpellings

UnknownOptionExit ==
    /\ pc = "exited"
    /\ exitCause = "usage"
    /\ Last(stderrLog).msg = "Unknown option"

ConfigurePortOption ==
    /\ UnknownOptionExit => Fold(argv0[argi]) \notin ConfigureSpellings
    /\ ~ConfigureGiven => portLine = PortLineBefore

\* the two halves of the claim, apart
ConfigureOptionAccepted ==
    UnknownOptionExit => Fold(argv0[argi]) \notin ConfigureSpellings

LineParametersKept ==
    ~ConfigureGiven => portLine = PortLineBefore

\* "com1 -c 500": the -c token is refused as an unknown option
ConfigureRefusedWitness ==
    /\ argv0 = << A_com1, A_c, A_500 >>
    /\ UnknownOptionExit
    /\ argi = 2

\* "com1": the port is set to 115200 8N1 although no -c was given
LineParametersChangedWitness ==
    /\ argv0 = << A_com1 >>
    /\ pc = "Wait"
    /\ portLine = [BaudRate |-> CBR_115200, ByteSize |-> 8, Parity |-> 0, StopBits |-> 0]
    /\ portLine # PortLineBefore


(***************************************************************************)
(* C15.  Tokens are judged in argument order and the first token that ends *)
(* the run decides: the parser never goes past the first help option,      *)
(* unknown option or write-timeout option without a value; when parsing is *)
(* over the process has exited at that token, with the console, the saved  *)
(* settings and the port untouched; when that token is a help option (in   *)
(* any letter case) the status is 0 and the documentation was printed,     *)
(* also when no port was given; otherwise the status is 1.                 *)
(***************************************************************************)
TerminatingAt(i) == OptionAt(i, HelpSpellings) \/ UnknownAt(i) \/ DanglingAt(i)

Terminators == { i \in ArgIndices : TerminatingAt(i) }

FirstTerminator == CHOOSE i \in Terminators : \A j \in Terminators : i <= j

BatchTaken == SubSeq(conQueue, 1, Len(conQueue) - Len(conQueue'))

\* the UTF-8 encoding of characters, with no substitution
RECURSIVE Utf8All(_)
Utf8All(chars) ==
    IF chars = <<>> THEN <<>>
    ELSE Utf8OfCodePoint(Head(chars)) \o Utf8All(Tail(chars))

CrSubstitutionConditional ==
    [][ (pc = "Poll" /\ pc' \in {"LocalEcho", "WriteFile"} /\ typed' = typed) =>
          LET plain == WithoutNul(Utf8All(TypedChars(BatchTaken)))
              got   == WithoutNul(Take(port_write_buf', bytes_stdin'))
          IN  /\ Len(got) = Len(plain)
              /\ \A k \in 1..Len(plain) :
                   got[k] = IF plain[k] = CR /\ ReplaceCR THEN LF ELSE plain[k]
      ]_vars

\* with replace-CR set, a character and a carriage return went out as the
\* character and a newline
CrReplacedWitness ==
    /\ ReplaceCR
    /\ typed = K_eacute \o K_CR
    /\ Flatten(portWrites) = << 195, 169, LF >>


(***************************************************************************)
(* C17.  No-data polls have no side effect.  A console poll whose batch    *)
(* holds no character (no event at all, events that are no key-down key    *)
(* events, a modifier key pressed by itself) and that meets no failure     *)
(* goes straight back to the wait with zero bytes: no console write, no    *)
(* debug echo, no diagnostic, no port write, write-busy false, the console *)
(* settings, the saved settings and the outstanding read unchanged.        *)
(* Likewise a read that completed with zero bytes goes to the re-arming    *)
(* with nothing written to the console.                                    *)
(***************************************************************************)
NoCharacter(r) ==
    \/ ~IsKeyDown(r)
    \/ r.UnicodeChar = 0 /\ r.dwControlKeyState # 0 /\ ~CtrlF10Event(r)

NoCharacters(batch) == \A i \in 1..Len(batch) : NoCharacter(batch[i])

NoDataPollsSideEffectFree ==
    [][ /\ ( /\ pc = "Poll"
             /\ pc' \notin {"Poll", "exited"}
             /\ ~WriteBusyAtPoll
             /\ NoCharacters(Take(conQueue, RECORD_SIZE)) )
          => /\ pc' = "Wait"
             /\ bytes_stdin' = 0
             /\ ~port_write_busy'
             /\ conQueue' \in {conQueue, Drop(conQueue, RECORD_SIZE)}
             /\ UNCHANGED <<conOut, stdoutLog, stderrLog, portWrites, osWrites,
                            port_out_over, console, saveVars,
                            port_in_over, osReads, readOutstanding, port_read_buf>>
        /\ ( /\ pc = "HandlePort"
             /\ pc' \notin {"HandlePort", "exited"}
             /\ port_in_over = [Internal |-> "STATUS_SUCCESS", InternalHigh |-> 0] )
          => /\ pc' = "Rearm"
             /\ bytes_read' = 0
             /\ UNCHANGED <<conOut, stdoutLog, stderrLog, portWrites, console, saveVars>>
        /\ pc = "Rearm" => UNCHANGED <<conOut, stdoutLog, portWrites>>
      ]_vars

\* a resize event and a control key pressed by itself were polled away and
\* the port delivered an empty read: nothing was written anywhere
NoDataPollsWitness ==
    /\ typed = K_resize \o K_ctrl
    /\ conQueue = <<>>
    /\ chunksLeft = 0
    /\ delivered = <<>>
    /\ pc = "Wait"
    /\ readOutstanding = 1
    /\ ~port_write_busy
    /\ conOut = <<>> /\ stdoutLog = <<>> /\ portWrites = <<>>


(***************************************************************************)
(* C18.  With debug-input set, standard output holds, for every byte       *)
(* handed to the pump so far and in order, one group of four characters:   *)
(* '[', the two upper-case hexadecimal digits of the byte value 0x00..0xFF *)
(* and ']'.                                                                *)
(***************************************************************************)
HexDigit(d) == IF d < 10 THEN 48 + d ELSE 55 + d

HexGroup(b) == << 91, HexDigit(b \div 16), HexDigit(b % 16), 93 >>

RECURSIVE HexGroups(_)
HexGroups(bytes) ==
    IF bytes = <<>> THEN <<>> ELSE HexGroup(Head(bytes)) \o HexGroups(Tail(bytes))

BytesToPump == Flatten(portWrites) \o BatchInHand

DebugHexTwoDigits ==
    (DebugInput /\ PumpRunning) => stdoutLog = HexGroups(BytesToPump)

\* what does hold: the format is right while every byte is below 0x80
DebugHexTwoDigitsBelow80 ==
    (DebugInput /\ PumpRunning /\ \A k \in 1..Len(BytesToPump) : BytesToPump[k] < 128)
        => stdoutLog = HexGroups(BytesToPump)

\* the two bytes of 'e acute' (C3 A9) were printed as [FFFFFFC3][FFFFFFA9]
DebugHexSignExtendedWitness ==
    /\ DebugInput
    /\ typed = K_eacute
    /\ BytesToPump = << 195, 169 >>
    /\ stdoutLog = << 91, 70, 70, 70, 70, 70, 70, 67, 51, 93,
                      91, 70, 70, 70, 70, 70, 70, 65, 57, 93 >>


(***************************************************************************)
(* The pump under fair scheduling: the program always takes its next step; *)
(* nothing is assumed of the user or of the port.                          *)
(***************************************************************************)
LiveBudgets == { <<MaxKeysCon, MaxChunksCon>> }

InitLive == InitWith(PumpArgLists, {TypicalConsole}, {BothHandles}, LiveBudgets)

SpecLive == InitLive /\ [][Next]_vars /\ WF_vars(Program)

\* the write that was issued has completed and write-busy is still set
WriteCompletedUnobserved ==
    /\ pc \in {"Wait", "HandlePort", "WriteStdout", "Rearm", "Poll"}
    /\ port_write_busy
    /\ portWrites # <<>>
    /\ osWrites = <<>>
    /\ port_out_over.Internal = "STATUS_SUCCESS"

(***************************************************************************)
(* C19.  Whenever the outstanding serial write has completed, write-busy   *)
(* is eventually cleared (or the process has exited), under fair           *)
(* scheduling of the loop, whether or not the port delivers anything more. *)
(***************************************************************************)
WriteBusyEventuallyCleared ==
    WriteCompletedUnobserved ~> (~port_write_busy \/ pc = "exited")

\* the write completed between the completion queries and the re-arming of
\* the read: the handle is no longer signalled and the loop waits, with
\* write-busy set and nothing more to come from the port
WriteCompletionMissedWitness ==
    /\ WriteCompletedUnobserved
    /\ pc = "Wait"
    /\ ~signalled
    /\ osReads = 1
    /\ chunksLeft = 0


(***************************************************************************)
(* C20.  A write is seen complete once per request: whenever the           *)
(* completion query of the loop reports the write complete, a write has    *)
(* been issued and its completion has not been seen before, that is,       *)
(* write-busy is still set.                                                *)
(***************************************************************************)
WriteCompletionOncePerRequest ==
    [][ (pc = "HandlePort" /\ write_complete') =>
            (portWrites # <<>> /\ port_write_busy) ]_vars

\* what does hold: a completion seen while write-busy is set is the
\* completion of the write that was issued last
CompletionSeenWhileBusyIsGenuine ==
    [][ (pc = "HandlePort" /\ write_complete' /\ port_write_busy) =>
            (portWrites # <<>> /\ osWrites = <<>>
             /\ port_out_over.Internal = "STATUS_SUCCESS") ]_vars

\* the query reported a write complete although no write was ever issued
WriteCompletionWithoutWriteWitness ==
    /\ write_complete
    /\ portWrites = <<>>
    /\ ~port_write_busy
    /\ pc \in {"WriteStdout", "Rearm", "Poll"}



(***************************************************************************)
(* C21.  Each loop iteration polls the console exactly once when           *)
(* write-busy is false at the poll point and not at all when it is true;   *)
(* hence, while no write is outstanding, the poll that follows a bounded   *)
(* wait is made: an iteration whose wait ran to its timeout with no write  *)
(* outstanding at any moment of it reaches the poll point with write-busy  *)
(* false.                                                                  *)
(***************************************************************************)
\* the wait of this iteration timed out and no write was outstanding while it
\* lasted: nothing is queued at the driver and no completion has arrived since
\* the handle was last reset
IdleWaitEnded ==
    /\ pc = "Poll"
    /\ rval = WAIT_TIMEOUT
    /\ osWrites = <<>>
    /\ ~signalled

PolledAfterIdleWait ==
    IdleWaitEnded => ~WriteBusyAtPoll

\* the part that holds: the step from the poll point calls ReadStdin (taking
\* what is queued, up to RECORD_SIZE events, or ending the process) exactly
\* when write-busy is false, and otherwise goes back to the wait with the
\* queue, the write buffer and the outputs as they were
PollGuardedByWriteBusy ==
    [][ (pc = "Poll" /\ pc' # pc)
        => IF WriteBusyAtPoll
           THEN /\ pc' = "Wait"
                /\ UNCHANGED <<conQueue, port_write_buf, bytes_stdin, stdoutLog,
                               conOut, portWrites, port_write_busy>>
           ELSE \E fault \in ReadStdinFaults :
                    /\ conQueue' = ReadStdin(fault).queue
                    /\ pc' = IF ReadStdin(fault).kind = "return"
                             THEN (IF ReadStdin(fault).n = 0 THEN "Wait"
                                   ELSE IF LocalEcho THEN "LocalEcho"
                                   ELSE "WriteFile")
                             ELSE "exited" ]_vars

\* the write has completed, every wait since has timed out, a key is queued
\* and the loop is at the poll point with write-busy still set
PollSkippedWhileIdleWitness ==
    /\ IdleWaitEnded
    /\ WriteBusyAtPoll
    /\ portWrites # <<>>
    /\ conQueue # <<>>


(***************************************************************************)
(* C22.  A wait that returns the timeout value leaves the outstanding      *)
(* read, write-busy and the console output as they were and goes on to     *)
(* the console poll; a wait that returns an abandoned, failed or otherwise *)
(* unrecognized value restores the console and ends the process with       *)
(* status 1 without polling the console.                                   *)
(***************************************************************************)
\* the values that are neither a port event nor the timeout
UnexpectedWaitValues == {WAIT_ABANDONED_0, WAIT_FAILED, WAIT_IO_COMPLETION}

WaitOutcomes ==
    [][ (pc = "Wait" /\ pc' # pc)
        => /\ rval' = WAIT_TIMEOUT
              => /\ pc' = "Poll"
                 /\ UNCHANGED <<port_in_over, osReads, readOutstanding, port_read_buf,
                                port_out_over, osWrites, port_write_busy,
                                conOut, stdoutLog, stderrLog, console, conQueue>>
           /\ rval' \in UnexpectedWaitValues
              => /\ pc' = "exited"
                 /\ exitStatus' = 1
                 /\ exitCause' = "fatal"
                 /\ console' = RestoreConsole(console)
                 /\ Len(stderrLog') = Len(stderrLog) + 1
                 /\ UNCHANGED <<conQueue, port_write_buf, bytes_stdin, conOut,
                                portWrites>>
           /\ rval' \in UnexpectedWaitValues \cup {WAIT_TIMEOUT, WAIT_OBJECT_0} ]_vars

\* a wait timed out while a read and a write were outstanding and a key was
\* queued, and the loop stands at the poll
WaitTimedOutWitness ==
    /\ pc = "Poll"
    /\ rval = WAIT_TIMEOUT
    /\ readOutstanding = 1
    /\ osWrites # <<>>
    /\ port_write_busy
    /\ conQueue # <<>>

\* each of the three unexpected values has ended a run with keys still queued
WaitFailedWitness ==
    /\ pc = "exited"
    /\ rval = WAIT_FAILED
    /\ Last(stderrLog).msg = "WAIT_FAILED"
    /\ exitStatus = 1
    /\ conQueue # <<>>

WaitUnknownWitness ==
    /\ pc = "exited"
    /\ rval = WAIT_IO_COMPLETION
    /\ Last(stderrLog).msg = "Unknown asynch error"
    /\ exitStatus = 1


(***************************************************************************)
(* C23.  No failure of a platform call is ignored or retried: a poll that  *)
(* finds events queued and whose call fails ends the process with status 1 *)
(* and the console restored.  A poll made with write-busy false and events *)
(* queued that takes no event from the queue and reports nothing is a poll *)
(* whose event-count query failed.                                         *)
(***************************************************************************)
\* the step of a poll that left the queued events where they were
PollTookNothing ==
    /\ pc = "Poll"
    /\ ~WriteBusyAtPoll
    /\ conQueue # <<>>
    /\ pc' # pc
    /\ conQueue' = conQueue

FailedPollIsFatal ==
    [][ PollTookNothing
        => /\ pc' = "exited"
           /\ exitStatus' = 1
           /\ console' = RestoreConsole(console) ]_vars

\* the part that holds: the calls whose result is looked at.  Every exit with
\* a diagnostic has status 1 and the console as RestoreConsole leaves it, and
\* from the poll every failure other than that of the count query is such an
\* exit
CheckedFailuresAreFatal ==
    /\ (pc = "exited" /\ exitCause = "fatal") => exitStatus = 1
    /\ (pc = "Poll" /\ conQueue # <<>>)
          => /\ ReadStdin("ReadConsoleInputW").kind = "fatal"
             /\ ReadStdin("short read").kind = "fatal"
             /\ ReadStdin("WideCharToMultiByte").kind \in {"fatal", "quit", "return"}
             /\ ReadStdin("WideCharToMultiByte").kind = "return"
                   => ReadStdin("WideCharToMultiByte").n = 0
             /\ ReadStdin("GetNumberOfConsoleInputEvents").kind = "return"


(***************************************************************************)
(* C24.  A console write or a port write that completes with fewer bytes   *)
(* than requested is logged as a warning on standard error and the pump    *)
(* continues: the step that learns of the short count adds the warning to  *)
(* stderr and does not end the process.                                    *)
(***************************************************************************)
\* the console write of received bytes came back short
ShortStdoutWriteStep ==
    /\ pc = "WriteStdout"
    /\ pc' = "Rearm"
    /\ Len(Last(conOut')) < bytes_read

\* the local echo came back short
ShortEchoWriteStep ==
    /\ pc = "LocalEcho"
    /\ pc' = "WriteFile"
    /\ Len(Last(conOut')) < bytes_stdin

\* the completion of a port write is observed, with fewer bytes than were given
ShortPortWriteStep ==
    /\ pc = "HandlePort"
    /\ pc' \notin {"HandlePort", "exited"}
    /\ port_write_busy
    /\ portWrites # <<>>
    /\ GetOverlappedResult(port_out_over) = "complete"
    /\ port_out_over.InternalHigh < Len(Last(portWrites))

ShortWritesLogged ==
    [][ (ShortStdoutWriteStep \/ ShortEchoWriteStep \/ ShortPortWriteStep)
        => stderrLog' # stderrLog ]_vars

\* the part that holds: a short console write of received bytes is logged
\* and the loop goes on to re-arm the read; no short count, wherever it
\* occurs, ends the process
ShortStdoutWriteWarned ==
    [][ /\ ShortStdoutWriteStep
           => /\ stderrLog' = Append(stderrLog, [msg |-> "WARNING: WriteFile(stdout_h)",
                                                 gle |-> FALSE])
              /\ exitCause' = "running"
        /\ (ShortEchoWriteStep \/ ShortPortWriteStep)
           => /\ exitCause' = "running"
              /\ stderrLog' = stderrLog ]_vars

\* a port write of two bytes completed with one, the completion was noted
\* and write-busy cleared, and stderr holds the connection message only
ShortPortWriteUnloggedWitness ==
    /\ pc = "Wait"
    /\ portWrites # <<>>
    /\ osWrites = <<>>
    /\ ~port_write_busy
    /\ port_out_over = [Internal |-> "STATUS_SUCCESS",
                        InternalHigh |-> Len(Last(portWrites)) - 1]
    /\ Len(stderrLog) = 1


(***************************************************************************)
(* The synchronous loop (spconnect.c, main, lines 401-453).  Console       *)
(* initialisation, RestoreConsole, ExitWithError and ReadStdin of that     *)
(* file are the ones modelled above; the port is opened without            *)
(* FILE_FLAG_OVERLAPPED, so WriteFile returns when the bytes are written   *)
(* or the write timeout has passed, and ReadFile returns at once with the  *)
(* bytes the driver holds.                                                 *)
(***************************************************************************)
syncFrame == <<argVars, optVars, saveVars, argv0, prelaunch, stdHandleValid,
               portVars, bufVars, rval, read_complete, write_complete,
               readOutstanding>>

\* one call of the current iteration: the bytes it was given or returned and
\* the count it reported
Step(op, bytes, n) == [op |-> op, bytes |-> bytes, n |-> n]

\* the state at the head of the loop after InitStdin, InitStdout and InitPort
\* succeeded for "spconnect com1" with any of the pump's flags
InitSync ==
    /\ argv = << A_com1 >> /\ argv0 = argv /\ argi = 2 /\ sp_s = A_com1
    /\ LocalEcho \in BOOLEAN /\ ReplaceCR \in BOOLEAN /\ DebugInput \in BOOLEAN
    /\ DisableVT \in BOOLEAN /\ SystemCP = FALSE
    /\ WriteTimeout = IntToDword(DefaultWriteTimeout)
    /\ prelaunch = TypicalConsole
    /\ STDIN_ORIGINAL_MODE = prelaunch.inMode /\ STDIN_ORIGINAL_CP = prelaunch.inCP
    /\ STDOUT_ORIGINAL_MODE = prelaunch.outMode /\ STDOUT_ORIGINAL_CP = prelaunch.outCP
    /\ console = [inMode |-> stdin_mode, inCP |-> CP_UTF8,
                  outMode |-> stdout_mode, outCP |-> CP_UTF8]
    /\ stdHandleValid = BothHandles
    /\ conQueue = <<>>
    /\ portLine = [BaudRate |-> CBR_115200, ByteSize |-> 8, Parity |-> 0, StopBits |-> 0]
    /\ port_in_over = Overlapped0 /\ port_out_over = Overlapped0
    /\ osReads = 0 /\ osWrites = <<>> /\ signalled = FALSE
    /\ port_read_buf = <<>> /\ port_write_buf = <<>> /\ port_write_busy = FALSE
    /\ rval = Dword(0, 0) /\ read_complete = FALSE /\ bytes_read = 0
    /\ write_complete = FALSE /\ bytes_stdin = 0
    /\ pc = "SyncReadStdin" /\ exitStatus = 0 /\ exitCause = "running"
    /\ stderrLog = <<>> /\ stdoutLog = <<>> /\ conOut = <<>> /\ portWrites = <<>>
    /\ delivered = <<>> /\ typed = <<>>
    /\ readOutstanding = 0
    /\ buf = <<>> /\ steps = <<>>
    /\ cpWrites = << CodepageCall("SetConsoleCP", CP_UTF8),
                      CodepageCall("SetConsoleOutputCP", CP_UTF8) >>
    /\ \E b \in PumpBudgets : keysLeft = b[1] /\ chunksLeft = b[2]

\* lines 402-414: the console poll into buf, and the hex echo of what it gave
SyncReadStdin ==
    /\ pc = "SyncReadStdin"
    /\ \E fault \in ReadStdinFaults :
         LET r == ReadStdin(fault)
             polled == IF r.kind = "return" THEN Take(r.buf_c, r.n) ELSE <<>>
         IN
         /\ conQueue' = r.queue
         /\ IF r.kind = "quit"
            THEN /\ QuitExit
                 /\ steps' = << Step("ReadStdin", <<>>, 0) >>
                 /\ UNCHANGED <<buf, bytes_stdin, stderrLog, stdoutLog>>
            ELSE IF r.kind = "fatal"
            THEN /\ ExitWithError(r.msg, r.msg = "ReadConsoleInputW"
                                         \/ r.msg = "WideCharToMultiByte")
                 /\ steps' = << Step("ReadStdin", <<>>, 0) >>
                 /\ UNCHANGED <<buf, bytes_stdin, stdoutLog>>
            ELSE /\ bytes_stdin' = r.n
                 /\ buf' = IF r.n > 0 THEN r.buf_c ELSE buf
                 /\ stdoutLog' = IF r.n > 0 /\ DebugInput
                                 THEN stdoutLog \o DebugEcho(polled)
                                 ELSE stdoutLog
                 /\ steps' = << Step("ReadStdin", polled, r.n) >>
                             \o (IF r.n > 0 /\ DebugInput
                                 THEN << Step("printf", polled, r.n) >> ELSE <<>>)
                 /\ pc' = IF r.n > 0
                          THEN (IF LocalEcho THEN "SyncLocalEcho" ELSE "SyncWriteFile")
                          ELSE "SyncReadFile"
                 /\ UNCHANGED <<console, cpWrites, exitStatus, exitCause, stderrLog>>
    /\ UNCHANGED <<syncFrame, bytes_read, conOut, portWrites,
                   delivered, typed, keysLeft, chunksLeft>>

\* lines 417-422: local echo; the count written is overwritten by the port
\* write that follows
SyncLocalEcho ==
    /\ pc = "SyncLocalEcho"
    /\ \/ /\ ExitWithError("WriteConsoleA(h_stdout) (echo)", TRUE)
          /\ UNCHANGED <<conOut, steps>>
       \/ \E bytes_written \in WrittenCounts(bytes_stdin) :
            /\ conOut' = Append(conOut, Take(buf, bytes_written))
            /\ steps' = Append(steps, Step("WriteConsoleA (echo)",
                                           Take(buf, bytes_stdin), bytes_written))
            /\ pc' = "SyncWriteFile"
            /\ UNCHANGED <<console, cpWrites, exitStatus, exitCause, stderrLog>>
    /\ UNCHANGED <<syncFrame, buf, conQueue, bytes_read, bytes_stdin, stdoutLog,
                   portWrites, delivered, typed, keysLeft, chunksLeft>>

\* mutant: the count the port write reports is not looked at
ShortPortWrite_Never(bytes_written, n) == FALSE

\* line 428: the port took fewer bytes than it was given
ShortPortWrite(bytes_written, n) == bytes_written # n

\* lines 424-430: the blocking write to the port
SyncWriteFile ==
    /\ pc = "SyncWriteFile"
    /\ \/ /\ ExitWithError("WriteFile(h_port)", TRUE)
          /\ UNCHANGED <<portWrites, steps>>
       \/ \E bytes_written \in WrittenCounts(bytes_stdin) :
            /\ portWrites' = Append(portWrites, Take(buf, bytes_stdin))
            /\ steps' = Append(steps, Step("WriteFile", Take(buf, bytes_stdin),
                                           bytes_written))
            /\ IF ShortPortWrite(bytes_written, bytes_stdin)
               THEN ExitWithError("Timed out writing to serial port.", FALSE)
               ELSE /\ pc' = "SyncReadFile"
                    /\ UNCHANGED <<console, cpWrites, exitStatus, exitCause, stderrLog>>
    /\ UNCHANGED <<syncFrame, buf, conQueue, bytes_read, bytes_stdin, stdoutLog,
                   conOut, delivered, typed, keysLeft, chunksLeft>>

\* lines 433-437: the port read into the same buffer; it returns at once with
\* what the driver holds, possibly nothing
SyncReadFile ==
    /\ pc = "SyncReadFile"
    /\ \/ /\ ExitWithError("ReadFile(h_port)", TRUE)
          /\ UNCHANGED <<buf, bytes_read, steps, delivered, chunksLeft>>
       \/ \E n \in (IF chunksLeft > 0 THEN 0..MaxChunkLen ELSE {0}) :
            LET chunk == NextChunk(Len(delivered), n) IN
            /\ buf' = chunk \o Drop(buf, n)
            /\ bytes_read' = n
            /\ delivered' = delivered \o chunk
            /\ chunksLeft' = IF n > 0 THEN chunksLeft - 1 ELSE chunksLeft
            /\ steps' = Append(steps, Step("ReadFile", chunk, n))
            /\ pc' = IF n > 0 THEN "SyncWriteStdout" ELSE "Sleep"
            /\ UNCHANGED <<console, cpWrites, exitStatus, exitCause, stderrLog>>
    /\ UNCHANGED <<syncFrame, conQueue, bytes_stdin, stdoutLog, conOut, portWrites,
                   typed, keysLeft>>

\* lines 440-449: the received bytes go to the console
SyncWriteStdout ==
    /\ pc = "SyncWriteStdout"
    /\ \/ /\ ExitWithError("WriteFile(h_stdout)", TRUE)
          /\ UNCHANGED <<conOut, steps>>
       \/ \E bytes_written \in WrittenCounts(bytes_read) :
            /\ conOut' = Append(conOut, Take(buf, bytes_written))
            /\ stderrLog' = IF bytes_written # bytes_read
                            THEN Append(stderrLog, [msg |-> "WARNING: WriteFile(h_stdout)",
                                                    gle |-> FALSE])
                            ELSE stderrLog
            /\ steps' = Append(steps, Step("WriteConsoleA", Take(buf, bytes_read),
                                           bytes_written))
            /\ pc' = "Sleep"
            /\ UNCHANGED <<console, cpWrites, exitStatus, exitCause>>
    /\ UNCHANGED <<syncFrame, buf, conQueue, bytes_read, bytes_stdin, stdoutLog,
                   portWrites, delivered, typed, keysLeft, chunksLeft>>

\* line 452: Sleep(SLEEP_TIME), then the next iteration
SyncSleep ==
    /\ pc = "Sleep"
    /\ steps' = Append(steps, Step("Sleep", <<>>, 0))
    /\ pc' = "SyncReadStdin"
    /\ UNCHANGED <<syncFrame, buf, console, cpWrites, conQueue, bytes_read, bytes_stdin,
                   exitStatus, exitCause, outVars, delivered, typed, keysLeft,
                   chunksLeft>>

NextSync ==
    \/ SyncReadStdin \/ SyncLocalEcho \/ SyncWriteFile
    \/ SyncReadFile \/ SyncWriteStdout \/ SyncSleep
    \/ TypeKey

SpecSync == InitSync /\ [][NextSync]_vars


(***************************************************************************)
(* C25.  Each iteration of the synchronous loop performs, in this order:   *)
(* the console poll; if it returned bytes, the hex echo (with              *)
(* --debug-input), the local echo (with --local-echo) and one blocking     *)
(* port write of exactly those bytes; then one port read; if bytes were    *)
(* read, one console write of exactly those bytes; then the sleep.  A      *)
(* short port write ends the process with status 1 before that             *)
(* iteration's port read.                                                  *)
(***************************************************************************)
Call(op, bytes) == [op |-> op, bytes |-> bytes]

\* the calls of the current iteration, without the counts they reported
Calls == [i \in 1..Len(steps) |-> Call(steps[i].op, steps[i].bytes)]

\* what follows the poll when it returned these bytes
WriteBlock(polled) ==
    IF polled = <<>> THEN <<>>
    ELSE (IF DebugInput THEN << Call("printf", polled) >> ELSE <<>>)
         \o (IF LocalEcho THEN << Call("WriteConsoleA (echo)", polled) >> ELSE <<>>)
         \o << Call("WriteFile", polled) >>

\* what follows the port read when it returned these bytes
ReadBlock(received) ==
    << Call("ReadFile", received) >>
    \o (IF received = <<>> THEN <<>> ELSE << Call("WriteConsoleA", received) >>)
    \o << Call("Sleep", <<>>) >>

\* the full iteration that the calls made so far belong to
WholeIteration ==
    LET first == << Calls[1] >> \o WriteBlock(Calls[1].bytes) IN
    IF Len(Calls) <= Len(first) THEN first
    ELSE first \o ReadBlock(Calls[Len(first) + 1].bytes)

ShortPortWriteAt(i) ==
    steps[i].op = "WriteFile" /\ steps[i].n < Len(steps[i].bytes)

SyncStepOrder ==
    steps # <<>>
    => /\ Calls[1].op = "ReadStdin"
       /\ IsPrefix(Calls, WholeIteration)
       /\ Len(Calls) > Len(<< Calls[1] >> \o WriteBlock(Calls[1].bytes))
             => Calls[Len(WriteBlock(Calls[1].bytes)) + 2].op = "ReadFile"
       /\ pc = "SyncReadStdin" => Calls = WholeIteration
       /\ \A i \in 1..Len(steps) :
             ShortPortWriteAt(i)
             => /\ i = Len(steps)
                /\ pc = "exited"
                /\ exitStatus = 1
                /\ Last(stderrLog).msg = "Timed out writing to serial port."
                /\ console = prelaunch

\* an iteration with every step in it: bytes polled, echoed in hex and on the
\* console, written to the port, bytes read from the port and written to the
\* console, and the sleep
FullIterationWitness ==
    /\ pc = "SyncReadStdin"
    /\ Len(steps) = 7
    /\ steps[1].bytes # <<>>
    /\ steps[5].bytes # <<>>
    /\ steps[5].bytes # steps[1].bytes

\* a port write came back short and the process is exited
SyncTimeoutWitness ==
    /\ pc = "exited"
    /\ steps # <<>>
    /\ ShortPortWriteAt(Len(steps))
    /\ exitStatus = 1


(***************************************************************************)
(* C26.  With --system-codepage the program makes no codepage call at all, *)
(* at initialisation, in the pump or in the restoration of any exit, and   *)
(* both codepages stay what they were before launch.  Without it the       *)
(* program sets the input and the output codepage to UTF-8 (65001) at      *)
(* initialisation, and on exit sets back to its prior value each codepage  *)
(* it has switched.                                                        *)
(***************************************************************************)
SetIn(cp)  == CodepageCall("SetConsoleCP", cp)
SetOut(cp) == CodepageCall("SetConsoleOutputCP", cp)

\* the codepage calls of a run that got as far as switching n codepages and
\* has, or has not, exited since
CodepageCallsOf(n, exited) ==
    (IF n >= 1 THEN << SetIn(CP_UTF8) >> ELSE <<>>)
    \o (IF n >= 2 THEN << SetOut(CP_UTF8) >> ELSE <<>>)
    \o (IF exited /\ n >= 1 THEN << SetIn(prelaunch.inCP) >> ELSE <<>>)
    \o (IF exited /\ n >= 2 THEN << SetOut(prelaunch.outCP) >> ELSE <<>>)

\* how many codepages initialisation has switched at this point of the run
InitReached ==
    IF pc \in {"args", "InitStdin", "InitStdinSet"} THEN {0}
    ELSE IF pc \in {"InitStdout", "InitStdoutSet"} THEN {1}
    ELSE IF pc = "exited" THEN {0, 1, 2}
    ELSE {2}

SystemCodepageUntouched ==
    /\ SystemCP
       => /\ cpWrites = <<>>
          /\ console.inCP = prelaunch.inCP
          /\ console.outCP = prelaunch.outCP
    /\ ~SystemCP
       => /\ \E n \in InitReached : cpWrites = CodepageCallsOf(n, pc = "exited")
          /\ pc = "exited"
             => /\ console.inCP = prelaunch.inCP
                /\ console.outCP = prelaunch.outCP

\* a run with --system-codepage that pumped and then ended
SystemCodepageWitness ==
    /\ SystemCP
    /\ pc = "exited"
    /\ portWrites # <<>>
    /\ cpWrites = <<>>

\* a run without it that pumped and ended: four codepage calls, the last two
\* giving back what the first two replaced
Utf8SwitchedAndRestoredWitness ==
    /\ ~SystemCP
    /\ pc = "exited"
    /\ portWrites # <<>>
    /\ cpWrites = CodepageCallsOf(2, TRUE)
    /\ prelaunch.outCP = 850


(***************************************************************************)
(* C27.  Null-character filtering in the console read.  As stated: a       *)
(* key-down event whose character is NUL is dropped only when it comes     *)
(* with no modifier state, a NUL that arrives with non-zero modifier state *)
(* is kept and forwarded, and every other character is kept.  As the       *)
(* program has it: a key-down NUL is dropped exactly when its modifier     *)
(* state is non-zero (a modifier key pressed by itself), a NUL with        *)
(* modifier state zero (a pasted NUL) is kept and forwarded, and every     *)
(* other character is kept.                                                *)
(***************************************************************************)
KeptAsStated(r) == IsKeyDown(r) /\ (r.UnicodeChar # 0 \/ r.dwControlKeyState # 0)

KeptByModifierState(r) == IsKeyDown(r) /\ (r.UnicodeChar # 0 \/ r.dwControlKeyState = 0)

\* the bytes a batch stands for under either rule: the characters of the kept
\* events, CR as LF when replace-CR is set, each encoded in UTF-8
RECURSIVE BytesKept(_, _)
BytesKept(events, asStated) ==
    IF events = <<>> THEN <<>>
    ELSE LET r == Head(events)
             c == IF ReplaceCR /\ r.UnicodeChar = CR THEN LF ELSE r.UnicodeChar
             kept == IF asStated THEN KeptAsStated(r) ELSE KeptByModifierState(r)
         IN  (IF kept THEN Utf8OfCodePoint(c) ELSE <<>>)
             \o BytesKept(Tail(events), asStated)

\* a poll that took a batch from the queue and returned to main
PollReturned ==
    /\ pc = "Poll"
    /\ ~WriteBusyAtPoll
    /\ pc' \in {"LocalEcho", "WriteFile", "Wait"}
    /\ conQueue' # conQueue

\* what the poll handed to main for the port
Forwarded == IF pc' = "Wait" THEN <<>> ELSE Take(port_write_buf', bytes_stdin')

NulKeptWithModifierState ==
    [][ PollReturned => Forwarded = BytesKept(BatchTaken, TRUE) ]_vars

NulDroppedWithModifierState ==
    [][ PollReturned => Forwarded = BytesKept(BatchTaken, FALSE) ]_vars

\* a control key pressed by itself and a pasted NUL were typed; one NUL byte
\* went to the port
PastedNulForwardedWitness ==
    /\ typed \in {K_ctrl \o K_nul, K_nul \o K_ctrl}
    /\ conQueue = <<>>
    /\ portWrites = << << 0 >> >>


(***************************************************************************)
(* Runs of the poll path that start at the head of the main loop with a    *)
(* paste waiting in the console's input queue: as many events as one read  *)
(* takes, fewer, and more.  Nothing else is typed and the port delivers    *)
(* nothing.                                                                *)
(***************************************************************************)
MaxPaste == 258

\* n key-down events of a character that takes three bytes in UTF-8
PasteOfEuro(n) == [i \in 1..n |-> KeyRecord(1, 8364, 0, 0)]

\* n events of five kinds in turn: a key pressed, the key released, a resize
\* event, a control key pressed by itself, a NUL
PasteOfMixed(n) ==
    [i \in 1..n |->
        IF i % 5 = 1 THEN KeyRecord(1, 97, 0, 65)
        ELSE IF i % 5 = 2 THEN KeyRecord(0, 97, 0, 65)
        ELSE IF i % 5 = 3 THEN OtherRecord
        ELSE IF i % 5 = 4 THEN KeyRecord(1, 0, LEFT_CTRL_PRESSED, 17)
        ELSE KeyRecord(1, 0, 0, 0)]

PasteLens == { RECORD_SIZE - 1, RECORD_SIZE, RECORD_SIZE + 1, MaxPaste }

Pastes == { PasteOfEuro(n) : n \in PasteLens } \cup { PasteOfMixed(n) : n \in PasteLens }

\* the state in which "spconnect com1", with or without --local-echo and
\* --debug-input, enters the main loop: the console set up, the port open,
\* the first read started
InitPaste ==
    /\ argv = << A_com1 >> /\ argv0 = argv /\ argi = 2 /\ sp_s = A_com1
    /\ LocalEcho \in BOOLEAN /\ DebugInput \in BOOLEAN
    /\ ReplaceCR = FALSE /\ DisableVT = FALSE /\ SystemCP = FALSE
    /\ WriteTimeout = IntToDword(DefaultWriteTimeout)
    /\ prelaunch = TypicalConsole
    /\ STDIN_ORIGINAL_MODE = prelaunch.inMode /\ STDIN_ORIGINAL_CP = prelaunch.inCP
    /\ STDOUT_ORIGINAL_MODE = prelaunch.outMode /\ STDOUT_ORIGINAL_CP = prelaunch.outCP
    /\ console = [inMode |-> stdin_mode, inCP |-> CP_UTF8,
                  outMode |-> stdout_mode, outCP |-> CP_UTF8]
    /\ cpWrites = << CodepageCall("SetConsoleCP", CP_UTF8),
                      CodepageCall("SetConsoleOutputCP", CP_UTF8) >>
    /\ stdHandleValid = BothHandles
    /\ conQueue \in Pastes
    /\ typed = conQueue
    /\ portLine = [BaudRate |-> CBR_115200, ByteSize |-> 8, Parity |-> 0, StopBits |-> 0]
    /\ port_in_over = OverlappedPending /\ port_out_over = Overlapped0
    /\ osReads = 1 /\ osWrites = <<>> /\ signalled = FALSE
    /\ port_read_buf = <<>> /\ port_write_buf = <<>> /\ port_write_busy = FALSE
    /\ rval = Dword(0, 0) /\ read_complete = FALSE /\ bytes_read = 0
    /\ write_complete = FALSE /\ bytes_stdin = 0
    /\ pc = "Wait" /\ exitStatus = 0 /\ exitCause = "running"
    /\ stderrLog = << [msg |-> "Connecting", gle |-> FALSE] >>
    /\ stdoutLog = <<>> /\ conOut = <<>> /\ portWrites = <<>>
    /\ delivered = <<>>
    /\ readOutstanding = 1
    /\ buf = <<>> /\ steps = <<>>
    /\ keysLeft = 0 /\ chunksLeft = 0

NextPaste == Wait \/ HandlePort \/ Poll \/ LocalEchoWrite \/ WriteFile \/ CompleteWrite

SpecPaste == InitPaste /\ [][NextPaste]_vars

(***************************************************************************)
(* C28.  Buffer bounds of the console read.  Whatever the number of        *)
(* queued events, one read takes at most 256 of them, from the head of the *)
(* queue, and the rest stay queued; the number of characters accumulated   *)
(* is at most the number of events read and below 1024; the number of      *)
(* bytes returned is at most 4096; and a read that returns fewer events    *)
(* than were asked for ends the process with status 1.                     *)
(***************************************************************************)
\* the number of events a step took from the queue
Taken == Len(conQueue) - Len(conQueue')

\* the batch the next read would be given
NextBatch == Take(conQueue, RecordsToRead(Len(conQueue)))

ConsoleReadBounds ==
    [][ (pc = "Poll" /\ pc' # pc)
        => /\ Taken >= 0
           /\ Taken <= 256
           /\ conQueue' = Drop(conQueue, Taken)
           /\ Len(ScanRecords(NextBatch, <<>>).buf_w) <= Len(NextBatch)
           /\ Len(ScanRecords(NextBatch, <<>>).buf_w) < 1024
           /\ bytes_stdin' <= 4096
           /\ Len(port_write_buf') <= 4096
           /\ \A fault \in ReadStdinFaults : ReadStdin(fault).n <= 4096
           /\ (Taken >= 1 /\ Taken < RecordsToRead(Len(conQueue)))
              => /\ pc' = "exited"
                 /\ exitStatus' = 1
                 /\ Last(stderrLog').msg
                      = "ReadConsoleInputW failed to read all available records."
      ]_vars

\* a paste of 258 events was read in two batches, 256 and 2, each written to
\* the port: 768 bytes and 6 bytes
PasteInTwoBatchesWitness ==
    /\ typed = PasteOfEuro(MaxPaste)
    /\ conQueue = <<>>
    /\ Len(portWrites) = 2
    /\ Len(portWrites[1]) = 3 * RECORD_SIZE
    /\ Len(portWrites[2]) = 3 * (MaxPaste - RECORD_SIZE)

\* a read of the paste came back one event short and the process is exited
ShortBatchWitness ==
    /\ pc = "exited"
    /\ exitStatus = 1
    /\ Len(typed) = MaxPaste
    /\ Len(conQueue) = MaxPaste - RECORD_SIZE + 1
    /\ Last(stderrLog).msg = "ReadConsoleInputW failed to read all available records."


(***************************************************************************)
(* C29.  Buffer ownership in the asynchronous pump.  The program modifies  *)
(* the port-write buffer only in a console poll made with write-busy       *)
(* false, and then no serial write is outstanding; while a write is        *)
(* outstanding the buffer holds the bytes that write was given.  The       *)
(* program reads the port-read buffer only in the console write that       *)
(* follows the observation of a read completion and precedes the           *)
(* re-arming, and then no read is outstanding; the program itself never   *)
(* modifies it.                                                            *)
(***************************************************************************)
WriteOutstanding == osWrites # <<>> \/ port_out_over.Internal = "STATUS_PENDING"

ReadOutstanding == osReads > 0 \/ port_in_over.Internal = "STATUS_PENDING"

\* the step is one of the program's, not one of the driver's or the user's
ProgramStep == pc' # pc

BufferOwnership ==
    [][ /\ (ProgramStep /\ pc = "Poll" /\ ~WriteBusyAtPoll) => ~WriteOutstanding
        /\ (ProgramStep /\ port_write_buf' # port_write_buf)
              => /\ pc = "Poll"
                 /\ ~WriteBusyAtPoll
                 /\ ~WriteOutstanding
        /\ WriteOutstanding
              => /\ port_write_buf' = port_write_buf
                 /\ Take(port_write_buf, bytes_stdin) = Last(portWrites)
        /\ (ProgramStep /\ pc = "WriteStdout")
              => /\ ~ReadOutstanding
                 /\ read_complete
                 /\ readOutstanding = 0
                 /\ pc' \in {"Rearm", "exited"}
                 /\ pc' = "Rearm" => IsPrefix(Last(conOut'), Take(port_read_buf, bytes_read))
        /\ ProgramStep => port_read_buf' = port_read_buf
        /\ (ProgramStep /\ conOut' # conOut) => pc \in {"WriteStdout", "LocalEcho"}
      ]_vars

\* a key is waiting in the queue while a write is outstanding, the wait has
\* timed out, and the buffer still holds what the write was given
WriteBufferHeldWitness ==
    /\ pc = "Wait"
    /\ rval = WAIT_TIMEOUT
    /\ osWrites # <<>>
    /\ port_write_busy
    /\ conQueue # <<>>
    /\ Take(port_write_buf, bytes_stdin) = Head(osWrites)

\* received bytes went from the port-read buffer to the console and the
\* read is about to be set up again
ReadBufferReadWitness ==
    /\ pc = "Rearm"
    /\ bytes_read > 0
    /\ osReads = 0
    /\ Last(conOut) = Take(port_read_buf, bytes_read)

=============================================================================
